---- MODULE Spec2Model ----
(***************************************************************************)
(* Retrieval-and-grounding engine of the policy question answering app:    *)
(* web/lib/rag.ts (chunker, index cache, retriever, confidence estimator)  *)
(* and the POST handler of the ask route (generation failover ladder).     *)
(*                                                                         *)
(* Text is modelled as a sequence of one-character strings; offsets into   *)
(* text are 0-based as in the source and Slice(s, a, b) is s.slice(a, b).  *)
(***************************************************************************)
EXTENDS Integers, Sequences, FiniteSets, TLC

(***************************************************************************)
(* Program constants                                                       *)
(***************************************************************************)
CHUNK_SIZE == 512
CHUNK_OVERLAP == 50
batchSize == 64
POST_TOP_K == 5

(***************************************************************************)
(* Generic helpers                                                         *)
(***************************************************************************)
\* null or undefined, in a slot that otherwise holds a record / a text
Null == [null |-> TRUE]
NoText == <<"null">>

SetMin(S) == CHOOSE x \in S : \A y \in S : x <= y
SetMax(S) == CHOOSE x \in S : \A y \in S : x >= y
MinOf(a, b) == IF a <= b THEN a ELSE b
MaxOf(a, b) == IF a >= b THEN a ELSE b

\* s.slice(a, b) for 0 <= a, b (0-based, end exclusive, clamped to the length)
Slice(s, a, b) == SubSeq(s, a + 1, MinOf(b, Len(s)))

RECURSIVE Join(_, _)
\* parts.join(sep) for a sequence of texts
Join(parts, sep) ==
  IF parts = <<>> THEN <<>>
  ELSE IF Len(parts) = 1 THEN parts[1]
  ELSE parts[1] \o sep \o Join(Tail(parts), sep)

\* s.startsWith(pat) at 0-based offset i
MatchesAt(s, pat, i) ==
  /\ i + Len(pat) <= Len(s)
  /\ \A k \in 1..Len(pat) : s[i + k] = pat[k]

startsWith(s, pat) == MatchesAt(s, pat, 0)
endsWith(s, pat) == Len(s) >= Len(pat) /\ MatchesAt(s, pat, Len(s) - Len(pat))

\* s.replace(pat, rep) with a string pattern: the first occurrence only
ReplaceFirst(s, pat, rep) ==
  LET hits == {i \in 0..Len(s) : MatchesAt(s, pat, i)}
  IN IF hits = {} THEN s
     ELSE LET i == SetMin(hits)
          IN Slice(s, 0, i) \o rep \o Slice(s, i + Len(pat), Len(s))

(***************************************************************************)
(* Character classes of the JavaScript string and regex operations used    *)
(***************************************************************************)
LowerChars == <<"a","b","c","d","e","f","g","h","i","j","k","l","m",
                "n","o","p","q","r","s","t","u","v","w","x","y","z">>
UpperChars == <<"A","B","C","D","E","F","G","H","I","J","K","L","M",
                "N","O","P","Q","R","S","T","U","V","W","X","Y","Z">>
DigitChars == <<"0","1","2","3","4","5","6","7","8","9">>

Range(f) == {f[i] : i \in DOMAIN f}
IndexOf(seq, c) == CHOOSE i \in DOMAIN seq : seq[i] = c

\* whitespace as matched by String.prototype.trim and the regex class \s
WS == {" ", "\t", "\n", "\r"}
IsUpper(c) == c \in Range(UpperChars)
IsLower(c) == c \in Range(LowerChars)
IsDigit(c) == c \in Range(DigitChars)
\* the regex class \w
IsWord(c) == IsUpper(c) \/ IsLower(c) \/ IsDigit(c) \/ c = "_"

\* c.toUpperCase()
toUpperCase(c) == IF IsLower(c) THEN UpperChars[IndexOf(LowerChars, c)] ELSE c

\* s.charCodeAt(i) for the characters the model uses
charCode(c) ==
  IF IsLower(c) THEN 96 + IndexOf(LowerChars, c)
  ELSE IF IsUpper(c) THEN 64 + IndexOf(UpperChars, c)
  ELSE IF IsDigit(c) THEN 47 + IndexOf(DigitChars, c)
  ELSE CASE c = " " -> 32 [] c = "\t" -> 9 [] c = "\n" -> 10 [] c = "\r" -> 13
         [] c = "!" -> 33 [] c = "#" -> 35 [] c = "." -> 46 [] c = ":" -> 58
         [] c = "?" -> 63 [] c = "_" -> 95 [] c = "|" -> 124 [] c = "-" -> 45

\* s.trim()
trim(s) ==
  LET keep == {i \in 1..Len(s) : s[i] \notin WS}
  IN IF keep = {} THEN <<>> ELSE SubSeq(s, SetMin(keep), SetMax(keep))

RECURSIVE Decimal(_)
\* String(n) for a natural number n
Decimal(n) ==
  IF n < 10 THEN <<DigitChars[n + 1]>>
  ELSE Decimal(n \div 10) \o <<DigitChars[(n % 10) + 1]>>

\* text.split(/\r?\n/)
RECURSIVE splitLines(_)
splitLines(text) ==
  LET nl == {i \in 1..Len(text) : text[i] = "\n"}
  IN IF nl = {} THEN <<text>>
     ELSE LET i == SetMin(nl)
              stop == IF i > 1 /\ text[i - 1] = "\r" THEN i - 2 ELSE i - 1
          IN <<SubSeq(text, 1, stop)>> \o splitLines(SubSeq(text, i + 1, Len(text)))

(***************************************************************************)
(* Chunker (rag.ts): policy type label, section splitting, chunk windows   *)
(***************************************************************************)
Str_policy == <<"_","p","o","l","i","c","y">>
Str_txt == <<".","t","x","t">>
Str_General == <<"G","e","n","e","r","a","l">>

extractPolicyType(filename) ==
  LET base == ReplaceFirst(ReplaceFirst(filename, Str_policy, <<>>), Str_txt, <<>>)
      spaced == trim([i \in 1..Len(base) |-> IF base[i] = "_" THEN " " ELSE base[i]])
  IN [i \in 1..Len(spaced) |->
        IF IsWord(spaced[i]) /\ (i = 1 \/ ~IsWord(spaced[i - 1]))
        THEN toUpperCase(spaced[i]) ELSE spaced[i]]

\* the isHeader test on a trimmed, non-empty line
isHeader(line) ==
  \/ startsWith(line, <<"#","#">>)
  \/ /\ \A i \in 1..Len(line) : IsUpper(line[i]) \/ line[i] \in WS
     /\ Len(line) >= 3
     /\ Len(line) <= 80
  \/ /\ endsWith(line, <<":">>)
     /\ Len(line) <= 80

\* line.replace(/^#+/, "").trim() || "General"
headerTitle(line) ==
  LET other == {i \in 1..Len(line) : line[i] # "#"}
      stripped == IF other = {} THEN <<>> ELSE SubSeq(line, SetMin(other), Len(line))
      title == trim(stripped)
  IN IF title = <<>> THEN Str_General ELSE title

\* variant of flush that leaves the pushed lines in the buffer
flushKeepBuffer(st) ==
  IF st.buffer # <<>>
  THEN [st EXCEPT !.sections = Append(@, [title |-> st.currentTitle, bodyLines |-> st.buffer])]
  ELSE st

\* flush(): push the buffered lines under the current title, if any are buffered
flush(st) ==
  IF st.buffer # <<>>
  THEN [st EXCEPT !.sections = Append(@, [title |-> st.currentTitle, bodyLines |-> st.buffer]),
                  !.buffer = <<>>]
  ELSE st

\* one iteration of the loop over the raw lines
sectionStep(st, rawLine) ==
  LET line == trim(rawLine)
  IN IF line = <<>> THEN [st EXCEPT !.buffer = Append(@, <<>>)]
     ELSE IF isHeader(line)
     THEN [flush(st) EXCEPT !.currentTitle = headerTitle(line)]
     ELSE [st EXCEPT !.buffer = Append(@, rawLine)]

RECURSIVE sectionLoop(_, _)
sectionLoop(st, lines) ==
  IF lines = <<>> THEN st ELSE sectionLoop(sectionStep(st, Head(lines)), Tail(lines))

\* variant of splitIntoSections that keeps the sections whose body is empty
splitIntoSectionsUnfiltered(text) ==
  LET start == [sections |-> <<>>, currentTitle |-> Str_General, buffer |-> <<>>]
      final == flush(sectionLoop(start, splitLines(text)))
  IN [i \in 1..Len(final.sections) |->
        [title |-> final.sections[i].title,
         body |-> trim(Join(final.sections[i].bodyLines, <<"\n">>))]]

splitIntoSections(text) ==
  LET start == [sections |-> <<>>, currentTitle |-> Str_General, buffer |-> <<>>]
      final == flush(sectionLoop(start, splitLines(text)))
      mapped == [i \in 1..Len(final.sections) |->
                   [title |-> final.sections[i].title,
                    body |-> trim(Join(final.sections[i].bodyLines, <<"\n">>))]]
  IN SelectSeq(mapped, LAMBDA sec : Len(sec.body) > 0)

\* variant of findSentenceBoundary that takes a last space at offset 10 too
findSentenceBoundaryFrom10(text, start, end) ==
  LET window == Slice(text, start, end)
      matches == {i \in 0..(Len(window) - 2) :
                    window[i + 1] \in {".", "!", "?"} /\ window[i + 2] \in WS}
      lastBoundary == IF matches = {} THEN 0 ELSE SetMax(matches) + 2
      spaces == {i \in 0..(Len(window) - 1) : window[i + 1] = " "}
      lastSpace == IF spaces = {} THEN -1 ELSE SetMax(spaces)
  IN IF lastBoundary # 0 /\ 10 * lastBoundary > 6 * CHUNK_SIZE THEN start + lastBoundary
     ELSE IF lastSpace >= 10 THEN start + lastSpace
     ELSE end

\* findSentenceBoundary(text, start, end): the returned offset
findSentenceBoundary(text, start, end) ==
  LET window == Slice(text, start, end)
      matches == {i \in 0..(Len(window) - 2) :
                    window[i + 1] \in {".", "!", "?"} /\ window[i + 2] \in WS}
      lastBoundary == IF matches = {} THEN 0 ELSE SetMax(matches) + 2
      spaces == {i \in 0..(Len(window) - 1) : window[i + 1] = " "}
      lastSpace == IF spaces = {} THEN -1 ELSE SetMax(spaces)
  IN IF lastBoundary # 0 /\ 10 * lastBoundary > 6 * CHUNK_SIZE THEN start + lastBoundary
     ELSE IF lastSpace > 10 THEN start + lastSpace
     ELSE end

\* variant of chunkEnd whose window is one character too wide
chunkEndWide(text, start) ==
  LET end == MinOf(start + CHUNK_SIZE + 1, Len(text))
  IN IF end < Len(text) THEN findSentenceBoundary(text, start, end) ELSE end

\* the window end chosen by one iteration of chunkText's loop
chunkEnd(text, start) ==
  LET end == MinOf(start + CHUNK_SIZE, Len(text))
  IN IF end < Len(text) THEN findSentenceBoundary(text, start, end) ELSE end

RECURSIVE chunkLoop(_, _, _)
chunkLoop(text, start, chunks) ==
  IF ~(start < Len(text)) THEN chunks
  ELSE LET end == chunkEnd(text, start)
           chunk == trim(Slice(text, start, end))
           pushed == IF chunk # <<>> THEN Append(chunks, chunk) ELSE chunks
       IN IF end >= Len(text) THEN pushed
          ELSE chunkLoop(text, MaxOf(0, end - CHUNK_OVERLAP), pushed)

chunkText(text) == IF text = <<>> THEN <<>> ELSE chunkLoop(text, 0, <<>>)

(***************************************************************************)
(* Corpus fingerprint (rag.ts hashDocs).  The hash is an unsigned 32-bit   *)
(* value, kept as two 16-bit halves [hi, lo] so that no intermediate       *)
(* product leaves the range of the checker's integers.                     *)
(***************************************************************************)
Half == 65536

\* (hash * 31 + code) >>> 0
hashStep(h, code) ==
  LET low == h.lo * 31 + code
      high == h.hi * 31 + (low \div Half)
  IN [hi |-> high % Half, lo |-> low % Half]

\* eight iterations of the loop, from 0-based position from
hashLoop8(h, content, from) ==
  LET at(k, prev) == IF from + k <= Len(content)
                     THEN hashStep(prev, charCode(content[from + k])) ELSE prev
      h1 == at(1, h)
      h2 == at(2, h1)
      h3 == at(3, h2)
      h4 == at(4, h3)
      h5 == at(5, h4)
      h6 == at(6, h5)
      h7 == at(7, h6)
  IN at(8, h7)

RECURSIVE hashLoop(_, _, _)
\* for (let i = 0; i < content.length; i += 1) hash = (hash * 31 + code) >>> 0
hashLoop(h, content, from) ==
  IF from >= Len(content) \/ h.lo < 0 THEN h
  ELSE hashLoop(hashLoop8(h, content, from), content, from + 8)

RECURSIVE Decimal32(_)
\* String(hash) for a 32-bit value held as halves
Decimal32(h) ==
  IF h.hi = 0 THEN Decimal(h.lo)
  ELSE LET t == (h.hi % 10) * Half + h.lo
       IN Decimal32([hi |-> h.hi \div 10, lo |-> t \div 10]) \o <<DigitChars[(t % 10) + 1]>>

\* variant of hashDocs that hashes the text of each document too
hashDocsContent(docs) ==
  LET parts == [i \in 1..Len(docs) |-> docs[i].filename \o <<":">> \o Decimal(Len(docs[i].text))
                                        \o <<":">> \o docs[i].text]
  IN Decimal32(hashLoop([hi |-> 0, lo |-> 0], Join(parts, <<"|">>), 0))

hashDocs(docs) ==
  LET parts == [i \in 1..Len(docs) |-> docs[i].filename \o <<":">> \o Decimal(Len(docs[i].text))]
  IN Decimal32(hashLoop([hi |-> 0, lo |-> 0], Join(parts, <<"|">>), 0))

(***************************************************************************)
(* Similarity and ranking (rag.ts).  Embedding vectors have integer        *)
(* components.  A distance 1 - dot / sqrt(normA * normB) is kept exactly   *)
(* as the similarity it is derived from, [num |-> dot, den2 |-> normA *    *)
(* normB]; the zero-norm case is the similarity 0, [num |-> 0, den2 |-> 1].*)
(* Rounding of the floating point division and square roots is not         *)
(* modelled.                                                               *)
(***************************************************************************)
RECURSIVE SumTo(_, _)
SumTo(f, n) == IF n = 0 THEN 0 ELSE f[n] + SumTo(f, n - 1)

cosineSimilarity(a, b) ==
  LET dot == SumTo([i \in 1..Len(a) |-> a[i] * b[i]], Len(a))
      normA == SumTo([i \in 1..Len(a) |-> a[i] * a[i]], Len(a))
      normB == SumTo([i \in 1..Len(a) |-> b[i] * b[i]], Len(a))
  IN IF normA = 0 \/ normB = 0 THEN [num |-> 0, den2 |-> 1]
     ELSE [num |-> dot, den2 |-> normA * normB]

\* x.num / sqrt(x.den2) < y.num / sqrt(y.den2)
SimLess(x, y) ==
  IF x.num < 0 /\ y.num >= 0 THEN TRUE
  ELSE IF x.num >= 0 /\ y.num < 0 THEN FALSE
  ELSE IF x.num >= 0 THEN x.num * x.num * y.den2 < y.num * y.num * x.den2
  ELSE x.num * x.num * y.den2 > y.num * y.num * x.den2

\* distances are 1 - similarity: a smaller distance is a larger similarity
DistLess(x, y) == SimLess(y, x)

\* the similarity s for which 1 - s = n / d, for 0 < d and 0 <= n <= d
DistanceOf(n, d) == [num |-> d - n, den2 |-> d * d]

\* DISTANCE_THRESHOLD = 0.8
DISTANCE_THRESHOLD == DistanceOf(8, 10)

\* variant of sortByDistance that puts the later of two equal distances first
sortByDistanceUnstable(scored) ==
  LET n == Len(scored)
      rank(i) == Cardinality({j \in 1..n : DistLess(scored[j].distance, scored[i].distance)
                                           \/ (j > i /\ ~DistLess(scored[i].distance, scored[j].distance))})
  IN [k \in 1..n |-> scored[CHOOSE i \in 1..n : rank(i) = k - 1]]

\* scored.sort((a, b) => a.distance - b.distance): Array.prototype.sort is stable
sortByDistance(scored) ==
  LET n == Len(scored)
      rank(i) == Cardinality({j \in 1..n : DistLess(scored[j].distance, scored[i].distance)
                                           \/ (j < i /\ ~DistLess(scored[i].distance, scored[j].distance))})
  IN [k \in 1..n |-> scored[CHOOSE i \in 1..n : rank(i) = k - 1]]

\* variant of rankChunks that also discards a best distance equal to the threshold
rankChunksInclusive(index, queryEmbedding, topK) ==
  LET scored == [i \in 1..Len(index) |->
                   [content |-> index[i].content, metadata |-> index[i].metadata,
                    distance |-> cosineSimilarity(queryEmbedding, index[i].embedding)]]
      top == Slice(sortByDistance(scored), 0, topK)
  IN IF top = <<>> \/ ~DistLess(top[1].distance, DISTANCE_THRESHOLD) THEN <<>> ELSE top

\* variant of rankChunks that tests every chunk of the list against the threshold
rankChunksFilterEach(index, queryEmbedding, topK) ==
  LET scored == [i \in 1..Len(index) |->
                   [content |-> index[i].content, metadata |-> index[i].metadata,
                    distance |-> cosineSimilarity(queryEmbedding, index[i].embedding)]]
      top == Slice(sortByDistance(scored), 0, topK)
  IN SelectSeq(top, LAMBDA c : ~DistLess(DISTANCE_THRESHOLD, c.distance))

\* the part of retrieve after the query embedding has arrived
rankChunks(index, queryEmbedding, topK) ==
  LET scored == [i \in 1..Len(index) |->
                   [content |-> index[i].content, metadata |-> index[i].metadata,
                    distance |-> cosineSimilarity(queryEmbedding, index[i].embedding)]]
      top == Slice(sortByDistance(scored), 0, topK)
  IN IF top = <<>> \/ DistLess(DISTANCE_THRESHOLD, top[1].distance) THEN <<>> ELSE top

\* variant of estimateConfidence whose two bounds are inclusive
estimateConfidenceInclusive(distance) ==
  IF ~DistLess(DistanceOf(35, 100), distance) THEN <<"H","i","g","h">>
  ELSE IF ~DistLess(DistanceOf(55, 100), distance) THEN <<"M","e","d","i","u","m">>
  ELSE <<"L","o","w">>

estimateConfidence(distance) ==
  IF DistLess(distance, DistanceOf(35, 100)) THEN <<"H","i","g","h">>
  ELSE IF DistLess(distance, DistanceOf(55, 100)) THEN <<"M","e","d","i","u","m">>
  ELSE <<"L","o","w">>

(***************************************************************************)
(* Response parsing and source synthesis (ask route)                       *)
(***************************************************************************)
openTag(tag) == <<"<">> \o tag \o <<">">>
closeTag(tag) == <<"<", "/">> \o tag \o <<">">>

\* new RegExp(`<${tag}>([\s\S]*?)</${tag}>`).exec(text): group 1 trimmed, or ""
\* The leftmost match starts at the first opening tag that has a closing tag
\* after it, which is the first opening tag if any has one; the lazy group ends
\* at the first closing tag after that opening tag.
extract(text, tag) ==
  LET opens == {o \in 0..Len(text) : MatchesAt(text, openTag(tag), o)}
      from == IF opens = {} THEN 0 ELSE SetMin(opens) + Len(openTag(tag))
      closes == {c \in from..Len(text) : MatchesAt(text, closeTag(tag), c)}
  IN IF opens = {} \/ closes = {} THEN <<>>
     ELSE trim(Slice(text, from, SetMin(closes)))

Tag_answer == <<"a","n","s","w","e","r">>
Tag_sources == <<"s","o","u","r","c","e","s">>
Tag_confidence == <<"c","o","n","f","i","d","e","n","c","e">>

\* variant of parseResponse without the fallback to the whole text
parseResponseTagOnly(text) ==
  [answer |-> extract(text, Tag_answer),
   sources |-> extract(text, Tag_sources),
   confidence |-> extract(text, Tag_confidence)]

parseResponse(text) ==
  [answer |-> IF extract(text, Tag_answer) # <<>> THEN extract(text, Tag_answer) ELSE trim(text),
   sources |-> extract(text, Tag_sources),
   confidence |-> extract(text, Tag_confidence)]

RECURSIVE dedupe(_, _)
dedupe(entries, seen) ==
  IF entries = <<>> THEN <<>>
  ELSE IF Head(entries) \in seen THEN dedupe(Tail(entries), seen)
  ELSE <<Head(entries)>> \o dedupe(Tail(entries), seen \cup {Head(entries)})

\* variant of normalizeSources without the seen set
normalizeSourcesAll(chunks) ==
  LET entry(c) == c.metadata.source \o <<" ", "(">> \o c.metadata.section \o <<")">>
  IN Join([i \in 1..Len(chunks) |-> entry(chunks[i])], <<";", " ">>)

normalizeSources(chunks) ==
  LET entry(c) == c.metadata.source \o <<" ", "(">> \o c.metadata.section \o <<")">>
  IN Join(dedupe([i \in 1..Len(chunks) |-> entry(chunks[i])], {}), <<";", " ">>)

(***************************************************************************)
(* Environment of the process: configuration, corpus directory, providers  *)
(***************************************************************************)
\* process.env: TRUE when the variable is set to a non-blank value.  The URL
\* values themselves (OPENAI_BASE_URL, OPENAI_BACKUP_BASE_URL) and the model
\* names only travel to the provider and decide no branch.
Envs == [OPENAI_API_KEY : BOOLEAN, OPENAI_BASE_URL : BOOLEAN,
         OPENAI_BACKUP_API_KEY : BOOLEAN, GROQ_API_KEY : BOOLEAN]

\* An error value: String(error) is msg, and tokens are the substrings of the
\* message that the handlers test with includes().
Err(msg, tokens) == [msg |-> msg, tokens |-> tokens]
ErrNoDir == Err("Policy data directory not found.", {})
ErrNoTxt == Err("No .txt policy files found", {})
ErrMissingKey == Err("Missing OPENAI_API_KEY.", {})
ErrBadJson == Err("SyntaxError: Unexpected token in JSON", {})

\* failures an embedding or chat provider call can end with
ProviderErrors ==
  {Err("429 Too Many Requests", {"429"}),
   Err("You exceeded your current quota", {"quota"}),
   Err("connect ECONNREFUSED", {"ECONNREFUSED"}),
   Err("401 Incorrect API key provided", {})}

Thrown(error) == [ok |-> FALSE, error |-> error]
Returned(value) == [ok |-> TRUE, value |-> value]

\* sample policy files
File(name, text) == [filename |-> name, text |-> text]
Name_hr == <<"h","r","_","p","o","l","i","c","y",".","t","x","t">>
Name_it == <<"i","t","_","p","o","l","i","c","y",".","t","x","t">>
Name_blank == <<"b","l","a","n","k",".","t","x","t">>
Name_heads == <<"h","e","a","d","s",".","t","x","t">>
Name_md == <<"n","o","t","e","s",".","m","d">>
Text_hr == <<"#","#"," ","L","e","a","v","e","\n",
             "S","t","a","f","f"," ","g","e","t"," ","l","e","a","v","e",".">>
Text_hr_edited == <<"#","#"," ","L","e","a","v","e","\n",
                    "S","t","a","f","f"," ","g","e","t"," ","m","o","n","e","y",".">>
Text_it == <<"U","s","e"," ","k","e","y","s",".","\n",
             "#","#","\r","\n",
             "R","o","t","a","t","e",".">>
Text_blank == <<"\n"," ","\n">>
Text_heads == <<"T","I","T","L","E","\n","N","o","t","e","s",":">>

\* states of the data directory: dir is whether a candidate directory exists
CorpusStates ==
  {[dir |-> FALSE, files |-> <<>>],
   [dir |-> TRUE, files |-> <<File(Name_md, Text_hr)>>],
   [dir |-> TRUE, files |-> <<File(Name_hr, Text_hr), File(Name_md, Text_hr)>>],
   [dir |-> TRUE, files |-> <<File(Name_hr, Text_hr_edited)>>],
   [dir |-> TRUE, files |-> <<File(Name_hr, Text_hr), File(Name_it, Text_it)>>],
   [dir |-> TRUE, files |-> <<File(Name_blank, Text_blank), File(Name_heads, Text_heads)>>]}

\* The embedding provider is a function of the text.  The model's provider
\* counts two letters: the vector of a text is <<number of "l", number of "k">>.
Count(text, c) == Cardinality({k \in 1..Len(text) : text[k] = c})
embeddingOf(text) == <<Count(text, "l"), Count(text, "k")>>

\* inputs of the callers
Str_leave == <<"l","e","a","v","e","?">>
Str_llkkk == <<"l","l","k","k","k","?">>
Str_lkk == <<"l","k","k","?">>
Queries == {<<>>, <<" ", "\t">>, Str_leave}
TopKs == {1, POST_TOP_K}
BadJson == [json |-> FALSE, question |-> NoText]
Payloads == {BadJson,
             [json |-> TRUE, question |-> NoText],
             [json |-> TRUE, question |-> <<>>],
             [json |-> TRUE, question |-> <<" ", "\n">>],
             [json |-> TRUE, question |-> <<" ">> \o Str_leave],
             [json |-> TRUE, question |-> Str_llkkk],
             [json |-> TRUE, question |-> Str_lkk]}

\* texts a chat provider may answer with
Str_ans == <<"T","w","o",".">>
Reply_tagged == openTag(Tag_answer) \o Str_ans \o closeTag(Tag_answer)
                \o openTag(Tag_sources) \o Name_hr \o closeTag(Tag_sources)
                \o openTag(Tag_confidence) \o <<"L","o","w">> \o closeTag(Tag_confidence)
Reply_plain == <<" ">> \o Str_ans
Reply_no_sources == openTag(Tag_answer) \o Str_ans \o closeTag(Tag_answer)
                    \o openTag(Tag_sources) \o <<" ">> \o closeTag(Tag_sources)
Reply_no_answer == <<" ">> \o Str_ans
                   \o openTag(Tag_confidence) \o <<"L","o","w">> \o closeTag(Tag_confidence)
                   \o openTag(Tag_sources) \o <<"\n">>
Replies == {<<>>, Reply_plain, Reply_tagged, Reply_no_sources, Reply_no_answer}

\* the concurrent callers: every caller may call getIndex, the callers in
\* Requests may also call retrieve and POST
Procs == {"r1", "r2"}
Requests == {"r1"}

(***************************************************************************)
(* State                                                                   *)
(***************************************************************************)
VARIABLES
  env,             \* process.env
  fs,              \* the data directory as loadPolicyDocs finds it
  cachedIndex,     \* rag.ts cachedIndex: Null or [id, entries]; id is the array's identity
  cachedDocsHash,  \* rag.ts cachedDocsHash: NoText or the fingerprint text
  procs,           \* the calls in flight, one per caller
  lastOk,          \* history: fingerprint and array of the latest getIndex that returned
  chunker,         \* a call of chunkText taken one loop iteration at a time
  call             \* a call of estimateConfidence or splitIntoSections and what it returned

vars == <<env, fs, cachedIndex, cachedDocsHash, procs, lastOk, chunker, call>>

Undefined == "undefined"

IdleProc ==
  [op |-> "none", pc |-> "idle",
   payload |-> Null,        \* POST: the request body (kept as history when the call ends)
   query |-> <<>>,          \* retrieve: query / POST: question
   topK |-> 0,
   docsHash |-> NoText,       \* getIndex: docsHash
   chunks |-> <<>>,         \* getIndex: chunks
   embeddings |-> <<>>,     \* embedTexts: embeddings
   i |-> 0,                 \* embedTexts: i
   index |-> Null,          \* the array getIndex returned to this call
   retrieved |-> Null,      \* POST: chunks, as [chunks |-> ...] once retrieve has returned
   cfgs |-> <<>>,           \* POST: chatConfigs
   cfgIdx |-> 0,            \* POST: position of cfg in chatConfigs (1-based)
   result |-> Null,         \* the value returned, the error raised or the response sent
   queryEmbedding |-> <<>>, \* history: retrieve's queryEmbedding, once it has arrived
   embedCalls |-> 0,        \* history: embedding provider calls made by this call
   chatCalls |-> <<>>,      \* history: positions of the chat providers called
   chatReplies |-> <<>>,    \* history: what each finished chat call ended with
   giHit |-> "none",        \* history: "hit" when getIndex was served from the cache, else "miss"
   seen |-> NoText]         \* history: cachedDocsHash as the getIndex in progress found it at its start

(***************************************************************************)
(* Index cache (rag.ts): loadPolicyDocs, chunk derivation, embedTexts      *)
(***************************************************************************)
\* variant of loadPolicyDocs without the two existence checks
loadPolicyDocsUnchecked(dir) ==
  Returned(SelectSeq(dir.files, LAMBDA f : endsWith(f.filename, Str_txt)))

loadPolicyDocs(dir) ==
  IF ~dir.dir THEN Thrown(ErrNoDir)
  ELSE LET files == SelectSeq(dir.files, LAMBDA f : endsWith(f.filename, Str_txt))
       IN IF Len(files) = 0 THEN Thrown(ErrNoTxt) ELSE Returned(files)

\* the chunks getIndex derives from one document
docChunks(doc) ==
  LET policyType == extractPolicyType(doc.filename)
      sections == splitIntoSections(doc.text)
      ofSection(sec) ==
        LET chunked == chunkText(sec.body)
        IN [k \in 1..Len(chunked) |->
              [content |-> chunked[k],
               metadata |-> [source |-> doc.filename, policyType |-> policyType,
                             section |-> sec.title]]]
  IN Join([j \in 1..Len(sections) |-> ofSection(sections[j])], <<>>)

buildChunks(docs) == Join([d \in 1..Len(docs) |-> docChunks(docs[d])], <<>>)

\* variant of zipEmbeddings that leaves out the last chunk
zipEmbeddingsPartial(chunks, embeddings) ==
  [idx \in 1..(Len(chunks) - 1) |->
     [content |-> chunks[idx].content, metadata |-> chunks[idx].metadata,
      embedding |-> embeddings[idx]]]

\* chunks.map((chunk, idx) => ({..., embedding: embeddings[idx]}))
zipEmbeddings(chunks, embeddings) ==
  [idx \in 1..Len(chunks) |->
     [content |-> chunks[idx].content, metadata |-> chunks[idx].metadata,
      embedding |-> IF idx <= Len(embeddings) THEN embeddings[idx] ELSE Undefined]]

\* variants of cacheHit: never served from the cache / fingerprint not compared
cacheHitNever(index, hash, docsHash) == FALSE
cacheHitAnyHash(index, hash, docsHash) == index # Null

\* if (cachedIndex && cachedDocsHash === docsHash)
cacheHit(index, hash, docsHash) == index # Null /\ hash = docsHash

\* variant of queryIsBlank without the trim
queryIsEmpty(query) == query = <<>>

\* if (!query.trim())
queryIsBlank(query) == trim(query) = <<>>

\* the array identities still referenced somewhere
LiveIds ==
  {v.id : v \in ({procs[p].index : p \in Procs} \cup {cachedIndex, lastOk}) \ {Null}}

\* the identity of a newly allocated array
FreshId == SetMin((0..Cardinality(LiveIds)) \ LiveIds)

(***************************************************************************)
(* Ask route: provider list, failover test, responses                      *)
(***************************************************************************)
\* variant of getOpenAIConfig that stands in the Ollama key when no key is set
getOpenAIConfigLenient(e) ==
  IF e.OPENAI_BASE_URL
  THEN Returned([apiKey |-> IF e.OPENAI_API_KEY THEN "OPENAI_API_KEY" ELSE "ollama",
                 baseURL |-> "OPENAI_BASE_URL"])
  ELSE Returned([apiKey |-> IF e.OPENAI_API_KEY THEN "OPENAI_API_KEY" ELSE "ollama",
                 baseURL |-> Undefined])

getOpenAIConfig(e) ==
  IF e.OPENAI_BASE_URL
  THEN Returned([apiKey |-> IF e.OPENAI_API_KEY THEN "OPENAI_API_KEY" ELSE "ollama",
                 baseURL |-> "OPENAI_BASE_URL"])
  ELSE IF ~e.OPENAI_API_KEY THEN Thrown(ErrMissingKey)
  ELSE Returned([apiKey |-> "OPENAI_API_KEY", baseURL |-> Undefined])

getBackupConfig(e) ==
  IF ~e.OPENAI_BACKUP_API_KEY THEN Null
  ELSE [apiKey |-> "OPENAI_BACKUP_API_KEY",
        baseURL |-> IF e.OPENAI_BASE_URL THEN "OPENAI_BASE_URL" ELSE Undefined]

getGroqConfig(e) ==
  IF ~e.GROQ_API_KEY THEN Null
  ELSE [apiKey |-> "GROQ_API_KEY", baseURL |-> "https://api.groq.com/openai/v1",
        model |-> "GROQ_CHAT_MODEL"]

\* the ordered provider list; getOpenAIConfig has returned when this is called
getChatConfigs(e) ==
  LET primary == getOpenAIConfig(e).value
      backup == getBackupConfig(e)
      groq == getGroqConfig(e)
  IN <<[apiKey |-> primary.apiKey, baseURL |-> primary.baseURL, model |-> "CHAT_MODEL"]>>
     \o (IF backup # Null
         THEN <<[apiKey |-> backup.apiKey, baseURL |-> backup.baseURL, model |-> "CHAT_MODEL"]>>
         ELSE <<>>)
     \o (IF groq # Null THEN <<groq>> ELSE <<>>)

\* variant of is429 that takes every failure for a rate limit
is429Always(error) == TRUE

is429(error) == "429" \in error.tokens \/ "quota" \in error.tokens

\* variant of isLastConfig that is one position early
isLastConfigEarly(cfgs, idx) == idx >= Len(cfgs) - 1

\* chatConfigs.indexOf(cfg) >= chatConfigs.length - 1
isLastConfig(cfgs, idx) == idx - 1 >= Len(cfgs) - 1

\* variant of nextConfig that tries the same provider again
sameConfig(idx) == idx

\* for (const cfg of chatConfigs): the position after idx
nextConfig(idx) == idx + 1

ConnTokens == {"ECONNREFUSED", "fetch failed", "Failed to fetch", "Connection refused", "ENOTFOUND"}

\* the response built by POST's outer catch
errorResponse(error, e) ==
  LET quota == "429" \in error.tokens \/ "quota" \in error.tokens
      isConnectionFail == error.tokens \cap ConnTokens # {}
  IN [status |-> 500,
      error |-> IF quota THEN "OpenAI quota exceeded." ELSE "Connection failed.",
      detail |-> IF quota
                 THEN (IF e.OPENAI_BACKUP_API_KEY \/ e.GROQ_API_KEY
                       THEN "All providers hit quota. Add credits or try again later."
                       ELSE "Add GROQ_API_KEY in Vercel for automatic fallback.")
                 ELSE IF isConnectionFail
                 THEN (IF e.OPENAI_BASE_URL
                       THEN "Connection failed. If using Ollama, start it."
                       ELSE "Connection failed. Check OPENAI_API_KEY and your network.")
                 ELSE error.msg]

MissingKeyResponse ==
  [status |-> 500, error |-> "Missing OPENAI_API_KEY. Or use Ollama: set OPENAI_BASE_URL"]
QuestionRequiredResponse == [status |-> 400, error |-> "Question is required."]
CannedAnswer == "I don't have information about that in the provided policies."
CannedResponse ==
  [status |-> 200, answer |-> CannedAnswer, sources |-> <<>>,
   confidence |-> <<"L","o","w">>, context |-> <<>>]

\* variant of answerResponse that estimates from the last chunk's distance
answerResponseLast(text, chunks) ==
  LET parsed == parseResponse(text)
      topDistance == IF Len(chunks) > 0 THEN chunks[Len(chunks)].distance ELSE DistanceOf(1, 1)
      fallbackSources == normalizeSources(chunks)
  IN [status |-> 200,
      answer |-> parsed.answer,
      sources |-> IF parsed.sources # <<>> THEN parsed.sources ELSE fallbackSources,
      confidence |-> IF parsed.confidence # <<>> THEN parsed.confidence
                     ELSE estimateConfidence(topDistance),
      context |-> chunks]

\* variant of answerResponse that treats a text without an answer as a failure
answerResponseStrict(text, chunks) ==
  LET parsed == parseResponse(text)
      topDistance == IF Len(chunks) > 0 THEN chunks[1].distance ELSE DistanceOf(1, 1)
      fallbackSources == normalizeSources(chunks)
  IN IF parsed.answer = <<>>
     THEN [status |-> 500, error |-> "Connection failed.", detail |-> "Error: empty completion"]
     ELSE [status |-> 200,
           answer |-> parsed.answer,
           sources |-> IF parsed.sources # <<>> THEN parsed.sources ELSE fallbackSources,
           confidence |-> IF parsed.confidence # <<>> THEN parsed.confidence
                          ELSE estimateConfidence(topDistance),
           context |-> chunks]

\* the success response built from the provider's text
answerResponse(text, chunks) ==
  LET parsed == parseResponse(text)
      topDistance == IF Len(chunks) > 0 THEN chunks[1].distance ELSE DistanceOf(1, 1)
      fallbackSources == normalizeSources(chunks)
  IN [status |-> 200,
      answer |-> parsed.answer,
      sources |-> IF parsed.sources # <<>> THEN parsed.sources ELSE fallbackSources,
      confidence |-> IF parsed.confidence # <<>> THEN parsed.confidence
                     ELSE estimateConfidence(topDistance),
      context |-> chunks]

\* variant of noChunks that never short-circuits
noChunksNever(chunks) == FALSE

\* if (!chunks.length) in POST
noChunks(chunks) == Len(chunks) = 0

(***************************************************************************)
(* Control flow of a call.  Each operator below is the synchronous run of  *)
(* the code from one point up to the next await on a provider or on the    *)
(* request body, and yields the caller's next record.  A call is entered   *)
(* as op = "getIndex", "retrieve" or "POST"; retrieve runs getIndex and    *)
(* POST runs retrieve on the same record.                                  *)
(***************************************************************************)
\* the call ends: its locals are gone, its result and history stay
Done(pr, result) ==
  [pr EXCEPT !.pc = "done", !.result = result, !.docsHash = NoText, !.seen = NoText,
             !.chunks = <<>>, !.embeddings = <<>>, !.i = 0, !.cfgs = <<>>, !.cfgIdx = 0]

\* variant of Fail in which POST answers a failed retrieval like an empty one
FailCanned(pr, error) ==
  IF pr.op = "POST" /\ pr.retrieved = Null THEN Done(pr, CannedResponse)
  ELSE IF pr.op = "POST" THEN Done(pr, errorResponse(error, env))
  ELSE Done(pr, Thrown(error))

\* an error leaves getIndex and retrieve uncaught; POST's outer catch answers it
Fail(pr, error) ==
  IF pr.op = "POST" THEN Done(pr, errorResponse(error, env)) ELSE Done(pr, Thrown(error))

\* POST from the return of retrieve to the first chat call
postWithChunks(pr, chunks) ==
  IF noChunks(chunks) THEN Done([pr EXCEPT !.retrieved = [chunks |-> chunks]], CannedResponse)
  ELSE [pr EXCEPT !.retrieved = [chunks |-> chunks], !.cfgs = getChatConfigs(env), !.cfgIdx = 1,
                  !.pc = "chat", !.chatCalls = <<1>>]

retrieveDone(pr, chunks) ==
  IF pr.op = "POST" THEN postWithChunks(pr, chunks) ELSE Done(pr, Returned(chunks))

\* variant of embedBegin that calls the provider for an empty list of texts too
embedBeginAlwaysCalls(pr, texts, waiting, finished) ==
  IF ~env.OPENAI_API_KEY THEN Fail(pr, ErrMissingKey)
  ELSE [pr EXCEPT !.embeddings = <<>>, !.i = 0, !.pc = waiting, !.embedCalls = @ + 1]

\* embedTexts up to its first provider call
embedBegin(pr, texts, waiting, finished) ==
  IF ~env.OPENAI_API_KEY THEN Fail(pr, ErrMissingKey)
  ELSE IF ~(0 < Len(texts)) THEN [pr EXCEPT !.embeddings = <<>>, !.i = 0, !.pc = finished]
  ELSE [pr EXCEPT !.embeddings = <<>>, !.i = 0, !.pc = waiting, !.embedCalls = @ + 1]

\* retrieve from the return of getIndex to the query embedding call
retrieveWithIndex(pr, index) ==
  IF Len(index.entries) = 0 THEN retrieveDone(pr, <<>>)
  ELSE embedBegin(pr, <<pr.query>>, "ret_embed", "ret_embed")

getIndexDone(pr, index) ==
  IF pr.op = "getIndex" THEN Done([pr EXCEPT !.index = index], Returned(index))
  ELSE retrieveWithIndex([pr EXCEPT !.index = index, !.seen = NoText], index)

\* getIndex up to its return from the cache or to the first embedding call
getIndexBegin(pr) ==
  LET loaded == loadPolicyDocs(fs)
  IN IF ~loaded.ok THEN Fail(pr, loaded.error)
     ELSE LET docs == loaded.value
              docsHash == hashDocs(docs)
              read == [pr EXCEPT !.docsHash = docsHash, !.seen = cachedDocsHash]
          IN IF cacheHit(cachedIndex, cachedDocsHash, docsHash)
             THEN getIndexDone([read EXCEPT !.giHit = "hit"], cachedIndex)
             ELSE LET chunks == buildChunks(docs)
                  IN embedBegin([read EXCEPT !.giHit = "miss", !.chunks = chunks],
                                [k \in 1..Len(chunks) |-> chunks[k].content],
                                "gi_embed", "gi_resume")

retrieveBegin(pr) ==
  IF queryIsBlank(pr.query) THEN retrieveDone(pr, <<>>) ELSE getIndexBegin(pr)

\* the texts of the embedTexts call a record is waiting in
embedTextsOf(pr) ==
  IF pr.pc = "gi_embed" THEN [k \in 1..Len(pr.chunks) |-> pr.chunks[k].content]
  ELSE <<pr.query>>

\* lastOk after a step that took caller p from record old to record new
okAfter(old, new) ==
  IF new.index # Null /\ old.index = Null
  THEN [hash |-> cachedDocsHash, id |-> new.index.id]
  ELSE lastOk

(***************************************************************************)
(* Actions                                                                 *)
(***************************************************************************)
Step(p, new) ==
  /\ procs' = [procs EXCEPT ![p] = new]
  /\ lastOk' = okAfter(procs[p], new)

\* a caller invokes the exported getIndex()
CallGetIndex(p) ==
  /\ procs[p].pc = "idle"
  /\ Step(p, getIndexBegin([IdleProc EXCEPT !.op = "getIndex"]))
  /\ UNCHANGED <<call, chunker, env, fs, cachedIndex, cachedDocsHash>>

\* a caller invokes the exported retrieve(query, topK)
CallRetrieve(p) ==
  /\ procs[p].pc = "idle"
  /\ \E query \in Queries, topK \in TopKs :
       Step(p, retrieveBegin([IdleProc EXCEPT !.op = "retrieve", !.query = query, !.topK = topK]))
  /\ UNCHANGED <<call, chunker, env, fs, cachedIndex, cachedDocsHash>>

\* a request arrives at POST: the credential check, then await request.json()
CallPost(p) ==
  /\ procs[p].pc = "idle"
  /\ \E payload \in Payloads :
       LET pr == [IdleProc EXCEPT !.op = "POST", !.payload = payload]
       IN Step(p, IF ~getOpenAIConfig(env).ok THEN Done(pr, MissingKeyResponse)
                  ELSE [pr EXCEPT !.pc = "json"])
  /\ UNCHANGED <<call, chunker, env, fs, cachedIndex, cachedDocsHash>>

\* variant of PostJson that does not trim the question
PostJsonNoTrim(p) ==
  /\ procs[p].pc = "json"
  /\ LET pr == procs[p]
         question == IF pr.payload.question = NoText THEN <<>> ELSE pr.payload.question
     IN Step(p, IF ~pr.payload.json THEN Fail(pr, ErrBadJson)
                ELSE IF question = <<>> THEN Done(pr, QuestionRequiredResponse)
                ELSE retrieveBegin([pr EXCEPT !.query = question, !.topK = POST_TOP_K]))
  /\ UNCHANGED <<call, chunker, env, fs, cachedIndex, cachedDocsHash>>

\* request.json() settles: question check, then retrieve(question, 5)
PostJson(p) ==
  /\ procs[p].pc = "json"
  /\ LET pr == procs[p]
         question == IF pr.payload.question = NoText THEN <<>> ELSE trim(pr.payload.question)
     IN Step(p, IF ~pr.payload.json THEN Fail(pr, ErrBadJson)
                ELSE IF question = <<>> THEN Done(pr, QuestionRequiredResponse)
                ELSE retrieveBegin([pr EXCEPT !.query = question, !.topK = POST_TOP_K]))
  /\ UNCHANGED <<call, chunker, env, fs, cachedIndex, cachedDocsHash>>

\* variant of EmbedReplyOk that puts the vectors of a batch in front of the
\* vectors of the batches before it
EmbedReplyOkPrepend(p) ==
  /\ procs[p].pc \in {"gi_embed", "ret_embed"}
  /\ LET pr == procs[p]
         texts == embedTextsOf(pr)
         batch == Slice(texts, pr.i, pr.i + batchSize)
         data == [k \in 1..Len(batch) |-> embeddingOf(batch[k])]
     IN   LET got == [pr EXCEPT !.embeddings = data \o @, !.i = @ + batchSize]
          IN Step(p, IF got.i < Len(texts) THEN [got EXCEPT !.embedCalls = @ + 1]
                     ELSE IF pr.pc = "gi_embed" THEN [got EXCEPT !.pc = "gi_resume"]
                     ELSE retrieveDone([got EXCEPT !.queryEmbedding = got.embeddings[1]],
                                       rankChunks(pr.index.entries, got.embeddings[1], pr.topK)))
  /\ UNCHANGED <<call, chunker, env, fs, cachedIndex, cachedDocsHash>>

\* openai.embeddings.create answers one batch
EmbedReplyOk(p) ==
  /\ procs[p].pc \in {"gi_embed", "ret_embed"}
  /\ LET pr == procs[p]
         texts == embedTextsOf(pr)
         batch == Slice(texts, pr.i, pr.i + batchSize)
         data == [k \in 1..Len(batch) |-> embeddingOf(batch[k])]
     IN   LET got == [pr EXCEPT !.embeddings = @ \o data, !.i = @ + batchSize]
          IN Step(p, IF got.i < Len(texts) THEN [got EXCEPT !.embedCalls = @ + 1]
                     ELSE IF pr.pc = "gi_embed" THEN [got EXCEPT !.pc = "gi_resume"]
                     ELSE retrieveDone([got EXCEPT !.queryEmbedding = got.embeddings[1]],
                                       rankChunks(pr.index.entries, got.embeddings[1], pr.topK)))
  /\ UNCHANGED <<call, chunker, env, fs, cachedIndex, cachedDocsHash>>

\* vectors an embedding provider may answer with, when the provider is taken
\* as any service rather than as the function embeddingOf
Vectors ==
  {<<1, 0, 0, 0>>, <<2, 0, 0, 0>>, <<1, 2, 2, 4>>, <<1, 2, 2, 5>>, <<0, 0, 0, 0>>, <<-1, 1, 0, 0>>}

\* openai.embeddings.create answers one batch, with any vectors
EmbedReplyAny(p) ==
  /\ procs[p].pc \in {"gi_embed", "ret_embed"}
  /\ LET pr == procs[p]
         texts == embedTextsOf(pr)
         batch == Slice(texts, pr.i, pr.i + batchSize)
     IN \E data \in [1..Len(batch) -> Vectors] :
          LET got == [pr EXCEPT !.embeddings = @ \o data, !.i = @ + batchSize]
          IN Step(p, IF got.i < Len(texts) THEN [got EXCEPT !.embedCalls = @ + 1]
                     ELSE IF pr.pc = "gi_embed" THEN [got EXCEPT !.pc = "gi_resume"]
                     ELSE retrieveDone([got EXCEPT !.queryEmbedding = got.embeddings[1]],
                                       rankChunks(pr.index.entries, got.embeddings[1], pr.topK)))
  /\ UNCHANGED <<call, chunker, env, fs, cachedIndex, cachedDocsHash>>

\* variant of EmbedReplyError that sends the failed batch a second time
EmbedReplyErrorRetry(p) ==
  /\ procs[p].pc \in {"gi_embed", "ret_embed"}
  /\ \E error \in ProviderErrors :
       Step(p, IF procs[p].embedCalls < 2 THEN [procs[p] EXCEPT !.embedCalls = @ + 1]
               ELSE Fail(procs[p], error))
  /\ UNCHANGED <<call, chunker, env, fs, cachedIndex, cachedDocsHash>>

\* variant of EmbedReplyError in which a failed rebuild empties the cache
EmbedReplyErrorDropsCache(p) ==
  /\ procs[p].pc \in {"gi_embed", "ret_embed"}
  /\ \E error \in ProviderErrors : Step(p, Fail(procs[p], error))
  /\ cachedIndex' = IF procs[p].pc = "gi_embed" THEN Null ELSE cachedIndex
  /\ cachedDocsHash' = IF procs[p].pc = "gi_embed" THEN NoText ELSE cachedDocsHash
  /\ UNCHANGED <<call, chunker, env, fs>>

\* openai.embeddings.create fails
EmbedReplyError(p) ==
  /\ procs[p].pc \in {"gi_embed", "ret_embed"}
  /\ \E error \in ProviderErrors : Step(p, Fail(procs[p], error))
  /\ UNCHANGED <<call, chunker, env, fs, cachedIndex, cachedDocsHash>>

\* variant of GetIndexResume that writes the fingerprint only into an empty cache
GetIndexResumeFirstHash(p) ==
  /\ procs[p].pc = "gi_resume"
  /\ LET pr == procs[p]
         index == [id |-> FreshId, entries |-> zipEmbeddings(pr.chunks, pr.embeddings)]
     IN /\ cachedIndex' = index
        /\ cachedDocsHash' = IF cachedIndex = Null THEN pr.docsHash ELSE cachedDocsHash
        /\ procs' = [procs EXCEPT ![p] = getIndexDone(pr, index)]
        /\ lastOk' = [hash |-> pr.docsHash, id |-> index.id]
  /\ UNCHANGED <<call, chunker, env, fs>>

\* variant of GetIndexResume that refills the cached array instead of
\* allocating a new one
GetIndexResumeInPlace(p) ==
  /\ procs[p].pc = "gi_resume"
  /\ LET pr == procs[p]
         index == [id |-> IF cachedIndex # Null THEN cachedIndex.id ELSE FreshId,
                   entries |-> zipEmbeddings(pr.chunks, pr.embeddings)]
     IN /\ cachedIndex' = index
        /\ cachedDocsHash' = pr.docsHash
        /\ procs' = [procs EXCEPT ![p] = getIndexDone(pr, index)]
        /\ lastOk' = [hash |-> pr.docsHash, id |-> index.id]
  /\ UNCHANGED <<call, chunker, env, fs>>

\* variant of GetIndexResume that takes the fingerprint of the policy files as
\* they are after the await
GetIndexResumeHashNow(p) ==
  /\ procs[p].pc = "gi_resume"
  /\ LET pr == procs[p]
         index == [id |-> FreshId, entries |-> zipEmbeddings(pr.chunks, pr.embeddings)]
         now == loadPolicyDocs(fs)
     IN /\ cachedIndex' = index
        /\ cachedDocsHash' = IF now.ok THEN hashDocs(now.value) ELSE pr.docsHash
        /\ procs' = [procs EXCEPT ![p] = getIndexDone(pr, index)]
        /\ lastOk' = [hash |-> pr.docsHash, id |-> index.id]
  /\ UNCHANGED <<call, chunker, env, fs>>

\* variant of GetIndexResume that leaves a cache filled meanwhile as it is and
\* returns what the cache holds
GetIndexResumeKeepCache(p) ==
  /\ procs[p].pc = "gi_resume"
  /\ LET pr == procs[p]
         index == IF cachedIndex # Null THEN cachedIndex
                  ELSE [id |-> FreshId, entries |-> zipEmbeddings(pr.chunks, pr.embeddings)]
     IN /\ cachedIndex' = index
        /\ cachedDocsHash' = IF cachedIndex # Null THEN cachedDocsHash ELSE pr.docsHash
        /\ procs' = [procs EXCEPT ![p] = getIndexDone(pr, index)]
        /\ lastOk' = [hash |-> cachedDocsHash', id |-> index.id]
  /\ UNCHANGED <<call, chunker, env, fs>>

\* getIndex resumes after await embedTexts(...): the cache is replaced
GetIndexResume(p) ==
  /\ procs[p].pc = "gi_resume"
  /\ LET pr == procs[p]
         index == [id |-> FreshId, entries |-> zipEmbeddings(pr.chunks, pr.embeddings)]
     IN /\ cachedIndex' = index
        /\ cachedDocsHash' = pr.docsHash
        /\ procs' = [procs EXCEPT ![p] = getIndexDone(pr, index)]
        /\ lastOk' = [hash |-> pr.docsHash, id |-> index.id]
  /\ UNCHANGED <<call, chunker, env, fs>>

\* client.chat.completions.create returns a completion
ChatReplyOk(p) ==
  /\ procs[p].pc = "chat"
  /\ \E text \in Replies :
       LET pr == [procs[p] EXCEPT !.chatReplies = Append(@, Returned(text))]
       IN Step(p, Done(pr, answerResponse(text, pr.retrieved.chunks)))
  /\ UNCHANGED <<call, chunker, env, fs, cachedIndex, cachedDocsHash>>

\* client.chat.completions.create fails: the catch block of the failover loop
ChatReplyError(p) ==
  /\ procs[p].pc = "chat"
  /\ \E error \in ProviderErrors :
       LET pr == [procs[p] EXCEPT !.chatReplies = Append(@, Thrown(error))]
       IN Step(p, IF ~is429(error) THEN Fail(pr, error)
                  ELSE IF isLastConfig(pr.cfgs, pr.cfgIdx) THEN Fail(pr, error)
                  ELSE IF nextConfig(pr.cfgIdx) > Len(pr.cfgs) THEN Fail(pr, error)
                  ELSE [pr EXCEPT !.cfgIdx = nextConfig(pr.cfgIdx),
                                  !.chatCalls = Append(@, nextConfig(pr.cfgIdx))])
  /\ UNCHANGED <<call, chunker, env, fs, cachedIndex, cachedDocsHash>>

\* the caller takes the result; the call's frame is gone
Return(p) ==
  /\ procs[p].pc = "done"
  /\ procs' = [procs EXCEPT ![p] = IdleProc]
  /\ UNCHANGED <<call, chunker, env, fs, cachedIndex, cachedDocsHash, lastOk>>

\* the policy files are edited, added or removed
CorpusChange ==
  /\ \E dir \in CorpusStates \ {fs} : fs' = dir
  /\ UNCHANGED <<call, chunker, env, cachedIndex, cachedDocsHash, procs, lastOk>>

(***************************************************************************)
(* chunkText taken one loop iteration at a time.  getIndex calls chunkText *)
(* synchronously; here a call is entered on a text of ChunkTexts and each  *)
(* iteration of its while loop is one step.  windows records the [start,   *)
(* end) pairs the iterations cut.                                          *)
(***************************************************************************)
\* the iterations of one call the model follows
MaxWindows == 6

\* a text of n characters: "a" with a space at every sp-th position and ". "
\* ending at every dot-th position (0: none)
Pattern(n, sp, dot) ==
  [i \in 1..n |-> IF dot > 0 /\ i % dot = dot - 1 THEN "."
                  ELSE IF dot > 0 /\ i % dot = 0 THEN " "
                  ELSE IF sp > 0 /\ i % sp = 0 THEN " "
                  ELSE "a"]

\* a text of n characters: "b" with one space at offset at
OneSpace(n, at) == [i \in 1..n |-> IF i = at + 1 THEN " " ELSE "b"]

\* a text of n characters: "b" with ". " at offsets at and at + 1
OneDot(n, at) == [i \in 1..n |-> IF i = at + 1 THEN "." ELSE IF i = at + 2 THEN " " ELSE "b"]

ChunkTexts ==
  {Pattern(n, sp, dot) : n \in {0, 1, 40, 512, 513, 600, 1100}, sp \in {0, 1, 7, 400}, dot \in {0, 90, 350}}
  \cup {OneSpace(600, at) : at \in {5, 10, 11, 20, 50, 51, 300}}
  \cup {OneDot(600, at) : at \in {8, 305, 306, 510}}

IdleChunker == [pc |-> "idle", text |-> <<>>, start |-> 0, chunks |-> <<>>, windows |-> <<>>]

\* chunkText(text) is called: if (!text) return []; chunks = []; start = 0
ChunkCall ==
  /\ chunker.pc = "idle"
  /\ \E text \in ChunkTexts :
       chunker' = [IdleChunker EXCEPT !.text = text,
                                      !.pc = IF text = <<>> THEN "returned" ELSE "loop"]
  /\ UNCHANGED <<call, env, fs, cachedIndex, cachedDocsHash, procs, lastOk>>

\* one iteration of while (start < text.length)
ChunkIter ==
  /\ chunker.pc = "loop"
  /\ Len(chunker.windows) < MaxWindows
  /\ LET text == chunker.text
         start == chunker.start
         end == chunkEnd(text, start)
         chunk == trim(Slice(text, start, end))
         pushed == [chunker EXCEPT !.chunks = IF chunk # <<>> THEN Append(@, chunk) ELSE @,
                                   !.windows = Append(@, <<start, end>>)]
     IN chunker' = IF ~(start < Len(text)) THEN [chunker EXCEPT !.pc = "returned"]
                   ELSE IF end >= Len(text) THEN [pushed EXCEPT !.pc = "returned"]
                   ELSE [pushed EXCEPT !.start = MaxOf(0, end - CHUNK_OVERLAP)]
  /\ UNCHANGED <<call, env, fs, cachedIndex, cachedDocsHash, procs, lastOk>>

\* the caller takes the chunks
ChunkReturn ==
  /\ chunker.pc = "returned"
  /\ chunker' = IdleChunker
  /\ UNCHANGED <<call, env, fs, cachedIndex, cachedDocsHash, procs, lastOk>>

(***************************************************************************)
(* Calls of the functions without state, on arguments drawn from bounded   *)
(* sets: the call and its return value are one step.                       *)
(***************************************************************************)
MaxDistance == 400

\* the distances 0, 0.005, 0.01, ... up to MaxDistance / 200
Distances == {DistanceOf(n, 200) : n \in 0..MaxDistance}

IdleCall ==
  [fn |-> "none", distance |-> DistanceOf(0, 200), label |-> <<>>,
   text |-> <<>>, sections |-> <<>>]

\* estimateConfidence(distance) is called and returns its label
CallEstimateConfidence ==
  /\ call.fn = "none"
  /\ \E distance \in Distances :
       call' = [IdleCall EXCEPT !.fn = "estimateConfidence",
                                !.distance = distance,
                                !.label = estimateConfidence(distance)]
  /\ UNCHANGED <<chunker, env, fs, cachedIndex, cachedDocsHash, procs, lastOk>>

\* the lines a document is made of
MaxLines == 3

\* blank and whitespace-only lines, body lines with and without padding, a
\* two-letter upper-case line (too short for a header), and the three kinds
\* of header, one of them without a title
LineKinds ==
  {<<>>, <<" ">>, <<"a","b">>, <<" ","c","d"," ">>, <<"A","B">>,
   <<"#","#"," ","T">>, <<"#","#">>, <<"A","B","C">>, <<"e",":">>}

\* the documents of up to MaxLines lines, ended by \n or by \r\n
Documents ==
  {Join(ls, sep) : ls \in UNION {[1..n -> LineKinds] : n \in 1..MaxLines},
                   sep \in {<<"\n">>, <<"\r","\n">>}}

\* splitIntoSections(text) is called and returns its sections
CallSplitIntoSections ==
  /\ call.fn = "none"
  /\ \E text \in Documents :
       call' = [IdleCall EXCEPT !.fn = "splitIntoSections",
                                !.text = text,
                                !.sections = splitIntoSections(text)]
  /\ UNCHANGED <<chunker, env, fs, cachedIndex, cachedDocsHash, procs, lastOk>>

\* the caller has taken the value
CallReturn ==
  /\ call.fn # "none"
  /\ call' = IdleCall
  /\ UNCHANGED <<chunker, env, fs, cachedIndex, cachedDocsHash, procs, lastOk>>

(***************************************************************************)
(* Specifications.  Both are the program above under a restricted set of   *)
(* callers.                                                                *)
(*   SpecIndex: concurrent callers of getIndex and retrieve while the      *)
(*              policy files change; only OPENAI_API_KEY is read.          *)
(*   SpecPost:  requests handled by POST one after another, under every    *)
(*              configuration of the providers.                            *)
(***************************************************************************)
InitWith(envs) ==
  /\ env \in envs
  /\ fs \in CorpusStates
  /\ cachedIndex = Null
  /\ cachedDocsHash = NoText
  /\ procs = [p \in Procs |-> IdleProc]
  /\ lastOk = Null
  /\ chunker = IdleChunker
  /\ call = IdleCall

IndexEnvs ==
  {e \in Envs : ~e.OPENAI_BASE_URL /\ ~e.OPENAI_BACKUP_API_KEY /\ ~e.GROQ_API_KEY}

InitIndex == InitWith(IndexEnvs)

NextIndex ==
  \/ \E p \in Procs : CallGetIndex(p)
  \/ \E p \in Requests : CallRetrieve(p)
  \/ \E p \in Procs : EmbedReplyOk(p)
  \/ \E p \in Procs : EmbedReplyError(p)
  \/ \E p \in Procs : GetIndexResume(p)
  \/ \E p \in Procs : Return(p)
  \/ CorpusChange

SpecIndex == InitIndex /\ [][NextIndex]_vars

InitPost == InitWith(Envs)

NextPost ==
  \/ \E p \in Requests : CallPost(p)
  \/ \E p \in Requests : PostJson(p)
  \/ \E p \in Requests : EmbedReplyOk(p)
  \/ \E p \in Requests : EmbedReplyError(p)
  \/ \E p \in Requests : GetIndexResume(p)
  \/ \E p \in Requests : ChatReplyOk(p)
  \/ \E p \in Requests : ChatReplyError(p)
  \/ \E p \in Requests : Return(p)
  \/ CorpusChange

SpecPost == InitPost /\ [][NextPost]_vars

\* SpecRank: one caller of retrieve while the policy files change, with an
\* embedding provider that may answer with any of Vectors.
NextRank ==
  \/ \E p \in Requests : CallRetrieve(p)
  \/ \E p \in Requests : EmbedReplyAny(p)
  \/ \E p \in Requests : EmbedReplyError(p)
  \/ \E p \in Requests : GetIndexResume(p)
  \/ \E p \in Requests : Return(p)
  \/ CorpusChange

SpecRank == InitIndex /\ [][NextRank]_vars

\* SpecChunk: calls of chunkText on the texts of ChunkTexts, nothing else running.
InitChunk == InitWith({e \in IndexEnvs : e.OPENAI_API_KEY}) /\ ~fs.dir

NextChunk == ChunkCall \/ ChunkIter \/ ChunkReturn

SpecChunk == InitChunk /\ [][NextChunk]_vars

\* SpecBatch: one caller of getIndex at a time, over changing policy files
\* that yield more chunks than one embedding batch holds.  BatchDoc(d, n) is a file of n sections,
\* section s with a body of d times "l" and s times "k", so that every chunk
\* of a corpus has an embedding of its own; BatchCorpus(n) is the directory
\* of files of ten sections each that yields n chunks.
BatchDoc(d, n) ==
  File(<<"p">> \o Decimal(d) \o Str_txt,
       Join([s \in 1..n |-> <<"#","#"," ", UpperChars[s], "\n">>
                            \o [i \in 1..(d + s) |-> IF i <= d THEN "l" ELSE "k"]],
            <<"\n">>))

BatchCorpus(n) ==
  [dir |-> TRUE,
   files |-> [d \in 1..((n + 9) \div 10) |->
                BatchDoc(d, IF d * 10 <= n THEN 10 ELSE n - (d - 1) * 10)]]

\* corpora of one chunk, of one full batch, of one chunk more, and of two
\* full batches and one chunk
BatchCorpora == {BatchCorpus(n) : n \in {1, batchSize, batchSize + 1, 2 * batchSize + 1}}

\* the policy files are replaced by those of another of the corpora
BatchCorpusChange ==
  /\ \E dir \in BatchCorpora \ {fs} : fs' = dir
  /\ UNCHANGED <<call, chunker, env, cachedIndex, cachedDocsHash, procs, lastOk>>

InitBatch ==
  /\ env \in {e \in IndexEnvs : e.OPENAI_API_KEY}
  /\ fs \in BatchCorpora
  /\ cachedIndex = Null
  /\ cachedDocsHash = NoText
  /\ procs = [p \in Procs |-> IdleProc]
  /\ lastOk = Null
  /\ chunker = IdleChunker
  /\ call = IdleCall

NextBatch ==
  \/ \E p \in Requests : CallGetIndex(p)
  \/ \E p \in Requests : EmbedReplyOk(p)
  \/ \E p \in Requests : EmbedReplyError(p)
  \/ \E p \in Requests : GetIndexResume(p)
  \/ \E p \in Requests : Return(p)
  \/ BatchCorpusChange

SpecBatch == InitBatch /\ [][NextBatch]_vars

\* SpecConfidence: calls of estimateConfidence on the distances of Distances.
NextConfidence == CallEstimateConfidence \/ CallReturn

SpecConfidence == InitChunk /\ [][NextConfidence]_vars

\* SpecSections: calls of splitIntoSections on the documents of Documents.
NextSections == CallSplitIntoSections \/ CallReturn

SpecSections == InitChunk /\ [][NextSections]_vars

(***************************************************************************)
(* Properties of the generation failover ladder (SpecPost)                 *)
(***************************************************************************)
\* a finished chat call that failed with an error of the rate-limit class
RateLimited(reply) ==
  ~reply.ok /\ ("429" \in reply.error.tokens \/ "quota" \in reply.error.tokens)

\* the number of configured generation providers
ProviderCount ==
  1 + (IF env.OPENAI_BACKUP_API_KEY THEN 1 ELSE 0) + (IF env.GROQ_API_KEY THEN 1 ELSE 0)

IsErrorResponse(r) == r.status = 500 /\ "answer" \notin DOMAIN r

\* C1: in the failover loop, a rate-limit failure of provider k that is not
\* the last one is followed by a call of provider k + 1; the text of the first
\* provider that succeeds gives the answer, no provider is called after a
\* success, and the request then ends with a success response.
C1_FailoverUsesFirstSuccess ==
  \A p \in Procs :
    LET pr == procs[p]
        calls == pr.chatCalls
        replies == pr.chatReplies
    IN /\ Len(replies) <= Len(calls)
       /\ \A k \in 1..Len(replies) :
            /\ (RateLimited(replies[k]) /\ k < ProviderCount)
                 => (Len(calls) >= k + 1 /\ calls[k + 1] = k + 1)
            /\ replies[k].ok
                 => /\ k = Len(calls)
                    /\ \A j \in 1..(k - 1) : ~replies[j].ok
                    /\ pr.pc = "done"
                    /\ pr.result.status = 200
                    /\ pr.result.answer = parseResponse(replies[k].value).answer

\* two providers fail with a rate limit, the third answers, the request succeeds
C1_Witness ==
  \E p \in Procs :
    /\ procs[p].pc = "done"
    /\ Len(procs[p].chatReplies) = 3
    /\ RateLimited(procs[p].chatReplies[1])
    /\ RateLimited(procs[p].chatReplies[2])
    /\ procs[p].chatReplies[3] = Returned(Reply_tagged)
    /\ procs[p].result.status = 200
    /\ procs[p].result.answer = Str_ans

\* C2: a failure of any provider that is not of the rate-limit class ends the
\* loop: no later provider is called and the request ends with an error
\* response, wherever the provider stands in the list.
C2_OtherErrorAborts ==
  \A p \in Procs :
    LET pr == procs[p]
    IN \A k \in 1..Len(pr.chatReplies) :
         (~pr.chatReplies[k].ok /\ ~RateLimited(pr.chatReplies[k]))
           => /\ Len(pr.chatCalls) = k
              /\ pr.pc = "done"
              /\ IsErrorResponse(pr.result)

\* the first of three providers fails with a connection error: one call only
C2_Witness ==
  \E p \in Procs :
    /\ ProviderCount = 3
    /\ procs[p].pc = "done"
    /\ Len(procs[p].chatReplies) = 1
    /\ ~procs[p].chatReplies[1].ok
    /\ ~RateLimited(procs[p].chatReplies[1])
    /\ procs[p].chatCalls = <<1>>
    /\ IsErrorResponse(procs[p].result)

\* C3: the ladder is bounded: the providers are called in list order, each at
\* most once, so at most ProviderCount calls are made; when all of them fail
\* with rate-limit errors the request ends with the quota response, status
\* 500, and no answer.
C3_LadderBounded ==
  \A p \in Procs :
    LET pr == procs[p]
    IN /\ Len(pr.chatCalls) <= ProviderCount
       /\ \A k \in 1..Len(pr.chatCalls) : pr.chatCalls[k] = k
       /\ (/\ Len(pr.chatReplies) = ProviderCount
           /\ \A k \in 1..ProviderCount : RateLimited(pr.chatReplies[k]))
            => /\ pr.pc = "done"
               /\ pr.result.status = 500
               /\ pr.result.error = "OpenAI quota exceeded."
               /\ "answer" \notin DOMAIN pr.result

\* all three providers have failed with rate-limit errors
C3_Witness ==
  \E p \in Procs :
    /\ ProviderCount = 3
    /\ procs[p].chatCalls = <<1, 2, 3>>
    /\ Len(procs[p].chatReplies) = 3
    /\ \A k \in 1..3 : RateLimited(procs[p].chatReplies[k])
    /\ procs[p].result.error = "OpenAI quota exceeded."

\* C4: when retrieve returns no chunk for a valid question, the request
\* returns the canned answer as a success response and calls no generation
\* provider.
C4_NoChunksCanned ==
  \A p \in Procs :
    (procs[p].retrieved # Null /\ Len(procs[p].retrieved.chunks) = 0)
      => /\ procs[p].pc = "done"
         /\ procs[p].result =
              [status |-> 200,
               answer |-> "I don't have information about that in the provided policies.",
               sources |-> <<>>, confidence |-> <<"L","o","w">>, context |-> <<>>]
         /\ procs[p].chatCalls = <<>>

\* the index holds chunks, none is close enough to the question
C4_Witness ==
  \E p \in Procs :
    /\ procs[p].op = "POST"
    /\ procs[p].pc = "done"
    /\ procs[p].retrieved # Null
    /\ procs[p].retrieved.chunks = <<>>
    /\ procs[p].index # Null
    /\ Len(procs[p].index.entries) > 0
    /\ procs[p].chatCalls = <<>>

(***************************************************************************)
(* Properties of the index cache and of retrieve (SpecIndex)               *)
(***************************************************************************)
\* the policy files a directory state offers
TxtFiles(dir) == SelectSeq(dir.files, LAMBDA f : endsWith(f.filename, Str_txt))
HasDocs(dir) == dir.dir /\ Len(TxtFiles(dir)) > 0

\* the index of a set of documents: one entry per chunk, in document,
\* section and chunk order, each with the embedding of its content
ExpectedIndex(docs) ==
  LET chunks == buildChunks(docs)
  IN [k \in 1..Len(chunks) |->
        [content |-> chunks[k].content, metadata |-> chunks[k].metadata,
         embedding |-> embeddingOf(chunks[k].content)]]

\* a complete index: the whole index of some state of the policy files
CompleteIndexes ==
  {ExpectedIndex(TxtFiles(dir)) : dir \in {d \in CorpusStates : HasDocs(d)}}
Complete(index) == index.entries \in CompleteIndexes

\* p enters a call in this step / p's getIndex resumes after the embeddings
Starts(p) == procs[p].pc = "idle" /\ procs'[p].op # "none"
Resumes(p) == procs[p].pc = "gi_resume" /\ procs'[p].pc # "gi_resume"
CacheUnchanged == cachedIndex' = cachedIndex /\ cachedDocsHash' = cachedDocsHash

\* C5: callers interleaved at the awaits of a rebuild never observe a partly
\* built index: the cache is null or holds a complete index, every entry with
\* its embedding, and so is every index a caller has been handed.
C5_NeverPartialIndex ==
  /\ cachedIndex # Null => Complete(cachedIndex)
  /\ \A p \in Procs : procs[p].index # Null => Complete(procs[p].index)

\* a rebuild for a new fingerprint is in flight while another caller has been
\* served the old index from the cache
C5_Witness ==
  \E p, q \in Procs :
    /\ procs[p].pc \in {"gi_embed", "gi_resume"}
    /\ Len(procs[p].chunks) > 1
    /\ cachedIndex # Null
    /\ cachedDocsHash # procs[p].docsHash
    /\ procs[q].pc = "done"
    /\ procs[q].giHit = "hit"
    /\ procs[q].index = cachedIndex

\* C6: with the corpus fingerprint unchanged since the latest getIndex that
\* returned, a getIndex call returns the very array that call returned, which
\* is the cached one, and calls no embedding provider.
C6_UnchangedFingerprintHitsCache ==
  [][\A p \in Procs :
       (/\ Starts(p)
        /\ procs'[p].op = "getIndex"
        /\ lastOk # Null
        /\ HasDocs(fs)
        /\ hashDocs(TxtFiles(fs)) = lastOk.hash)
         => /\ procs'[p].pc = "done"
            /\ procs'[p].result.ok
            /\ procs'[p].result.value.id = lastOk.id
            /\ procs'[p].result.value = cachedIndex
            /\ procs'[p].embedCalls = 0
            /\ CacheUnchanged]_vars

\* a getIndex call has been served from the cache
C6_Witness ==
  \E p \in Procs :
    /\ procs[p].op = "getIndex"
    /\ procs[p].pc = "done"
    /\ procs[p].giHit = "hit"
    /\ procs[p].embedCalls = 0
    /\ procs[p].result = Returned(cachedIndex)
    /\ Len(cachedIndex.entries) > 0

\* C7: when the fingerprint of the policy files differs from the cached one,
\* getIndex does not return the old index: it chunks every document again,
\* embeds every chunk again, and replaces index and fingerprint together by a
\* new array that holds the new entries only.
C7_ChangedFingerprintRebuilds ==
  [][\A p \in Procs :
       /\ (/\ Starts(p)
           /\ procs'[p].op = "getIndex"
           /\ cachedIndex # Null
           /\ HasDocs(fs)
           /\ hashDocs(TxtFiles(fs)) # cachedDocsHash)
            => /\ procs'[p].index = Null
               /\ procs'[p].giHit = "miss"
               /\ procs'[p].chunks = buildChunks(TxtFiles(fs))
               /\ \/ procs'[p].pc = "gi_embed" /\ procs'[p].embedCalls = 1
                  \/ procs'[p].pc = "gi_resume" /\ procs'[p].chunks = <<>>
                  \/ procs'[p].pc = "done" /\ ~procs'[p].result.ok
               /\ CacheUnchanged
       /\ Resumes(p)
            => /\ cachedIndex'.id \notin LiveIds
               /\ Len(cachedIndex'.entries) = Len(procs[p].chunks)
               /\ \A k \in 1..Len(procs[p].chunks) :
                    cachedIndex'.entries[k] =
                      [content |-> procs[p].chunks[k].content,
                       metadata |-> procs[p].chunks[k].metadata,
                       embedding |-> embeddingOf(procs[p].chunks[k].content)]
               /\ cachedDocsHash' = procs[p].docsHash
               /\ procs'[p].index = cachedIndex']_vars

\* a rebuild has replaced the cache while another caller still holds the old index
C7_Witness ==
  \E p, q \in Procs :
    /\ procs[p].pc = "done"
    /\ procs[p].giHit = "miss"
    /\ procs[p].result = Returned(cachedIndex)
    /\ procs[q].index # Null
    /\ procs[q].index.id # cachedIndex.id
    /\ procs[q].index.entries # cachedIndex.entries

\* C8: getIndex fails when the data directory is missing or holds no .txt
\* file; the cached index and fingerprint stay as they were and no embedding
\* call is made.
C8_CorpusUnavailable ==
  [][\A p \in Procs :
       (/\ Starts(p)
        /\ procs'[p].op = "getIndex"
        /\ (~fs.dir \/ \A k \in 1..Len(fs.files) : ~endsWith(fs.files[k].filename, Str_txt)))
         => /\ procs'[p].pc = "done"
            /\ ~procs'[p].result.ok
            /\ procs'[p].result.error.msg
                 = (IF fs.dir THEN "No .txt policy files found"
                    ELSE "Policy data directory not found.")
            /\ procs'[p].embedCalls = 0
            /\ CacheUnchanged]_vars

\* getIndex has failed on a directory without .txt files while an index is cached
C8_Witness ==
  \E p \in Procs :
    /\ procs[p].op = "getIndex"
    /\ procs[p].pc = "done"
    /\ procs[p].result = Thrown(ErrNoTxt)
    /\ procs[p].embedCalls = 0
    /\ cachedIndex # Null
    /\ fs.dir /\ ~HasDocs(fs)

\* C9 as stated: when documents exist and yield no chunk, getIndex fails and
\* no empty index is returned or cached.
C9_NoEmptyIndex ==
  /\ cachedIndex # Null => Len(cachedIndex.entries) > 0
  /\ \A p \in Procs :
       (procs[p].op = "getIndex" /\ procs[p].pc = "done" /\ procs[p].result.ok)
         => Len(procs[p].result.value.entries) > 0

\* C9 as amended: when documents exist and yield no chunk, getIndex raises no
\* error for the lack of content.  With OPENAI_API_KEY set it calls no
\* embedding provider, caches an empty index under the fingerprint of the
\* documents and returns it; with OPENAI_API_KEY unset it fails with the
\* missing key error of embedTexts.
C9_EmptyIndexIsCached ==
  [][\A p \in Procs :
       /\ (/\ Starts(p)
           /\ procs'[p].op = "getIndex"
           /\ HasDocs(fs)
           /\ buildChunks(TxtFiles(fs)) = <<>>
           /\ ~(cachedIndex # Null /\ cachedDocsHash = hashDocs(TxtFiles(fs))))
            => /\ procs'[p].embedCalls = 0
               /\ IF env.OPENAI_API_KEY
                  THEN procs'[p].pc = "gi_resume" /\ procs'[p].chunks = <<>>
                  ELSE procs'[p].pc = "done"
                       /\ procs'[p].result = Thrown(Err("Missing OPENAI_API_KEY.", {}))
       /\ (Resumes(p) /\ procs[p].op = "getIndex" /\ procs[p].chunks = <<>>)
            => /\ cachedIndex'.entries = <<>>
               /\ cachedDocsHash' = procs[p].docsHash
               /\ procs'[p].pc = "done"
               /\ procs'[p].result = Returned(cachedIndex')
               /\ procs'[p].embedCalls = 0]_vars

\* getIndex has returned the empty index of documents without content
C9_Witness ==
  \E p \in Procs :
    /\ procs[p].op = "getIndex"
    /\ procs[p].pc = "done"
    /\ procs[p].giHit = "miss"
    /\ procs[p].result.ok
    /\ procs[p].result.value.entries = <<>>
    /\ cachedIndex = procs[p].result.value

\* C10: retrieve with an empty or whitespace-only query returns [] at once:
\* no embedding call, no read of the policy files or of the cache, no rebuild.
C10_BlankQueryReturnsEmpty ==
  [][\A p \in Procs :
       (/\ Starts(p)
        /\ procs'[p].op = "retrieve"
        /\ \A k \in 1..Len(procs'[p].query) : procs'[p].query[k] \in WS)
         => /\ procs'[p].pc = "done"
            /\ procs'[p].result = Returned(<<>>)
            /\ procs'[p].embedCalls = 0
            /\ procs'[p].giHit = "none"
            /\ procs'[p].index = Null
            /\ CacheUnchanged]_vars

\* a whitespace query has been answered with [] although the data directory
\* is missing, where getIndex fails
C10_Witness ==
  \E p \in Procs :
    /\ procs[p].op = "retrieve"
    /\ procs[p].pc = "done"
    /\ procs[p].query = <<" ", "\t">>
    /\ procs[p].result = Returned(<<>>)
    /\ procs[p].embedCalls = 0
    /\ ~fs.dir
    /\ cachedIndex = Null

(***************************************************************************)
(* Properties of the ranking in retrieve (SpecRank)                        *)
(***************************************************************************)
\* a retrieve call has ended after ranking the index against the query vector
Ranked(p) ==
  /\ procs[p].op = "retrieve"
  /\ procs[p].pc = "done"
  /\ procs[p].result.ok
  /\ procs[p].queryEmbedding # <<>>

\* the distance of index entry i from the query vector of call p
QueryDistance(p, i) ==
  cosineSimilarity(procs[p].queryEmbedding, procs[p].index.entries[i].embedding)

SameDistance(x, y) == ~DistLess(x, y) /\ ~DistLess(y, x)

\* entry i at distance x comes before entry j at distance y
Before(x, i, y, j) == DistLess(x, y) \/ (SameDistance(x, y) /\ i < j)

\* C11: every list retrieve returns is in ascending order of distance, entries
\* of equal distance in the order of the index; the entries left out all come
\* after the entries returned, so the list is determined by the index, the
\* query vector and topK.
C11_SortedStable ==
  \A p \in Procs :
    Ranked(p) =>
      LET res == procs[p].result.value
          entries == procs[p].index.entries
      IN \E f \in [1..Len(res) -> 1..Len(entries)] :
           /\ \A k \in 1..Len(res) :
                res[k] = [content |-> entries[f[k]].content,
                          metadata |-> entries[f[k]].metadata,
                          distance |-> QueryDistance(p, f[k])]
           /\ \A k, l \in 1..Len(res) :
                k < l => Before(res[k].distance, f[k], res[l].distance, f[l])
           /\ \A i \in 1..Len(entries) : \A k \in 1..Len(res) :
                (\A l \in 1..Len(res) : f[l] # i)
                  => Before(res[k].distance, f[k], QueryDistance(p, i), i)

\* three entries returned: the last entry of the index first, then the first
\* two entries, which are at equal distances, in index order
C11_Witness ==
  \E p \in Procs :
    /\ Ranked(p)
    /\ Len(procs[p].result.value) = 3
    /\ procs[p].result.value[1].content = procs[p].index.entries[3].content
    /\ procs[p].result.value[2].content = procs[p].index.entries[1].content
    /\ procs[p].result.value[3].content = procs[p].index.entries[2].content
    /\ DistLess(procs[p].result.value[1].distance, procs[p].result.value[2].distance)
    /\ SameDistance(procs[p].result.value[2].distance, procs[p].result.value[3].distance)
    /\ procs[p].result.value[2].distance # procs[p].result.value[3].distance

\* C12: when every entry of the index is at a distance above 0.8 from the
\* query vector, retrieve returns []; when the best distance is 0.8 or less,
\* 0.8 itself included, and topK is at least 1, the list is not discarded.
C12_CutoffAboveThreshold ==
  \A p \in Procs :
    (Ranked(p) /\ Len(procs[p].index.entries) > 0 /\ procs[p].topK >= 1) =>
      LET n == Len(procs[p].index.entries)
          above(i) == DistLess(DistanceOf(8, 10), QueryDistance(p, i))
      IN IF \A i \in 1..n : above(i)
         THEN procs[p].result.value = <<>>
         ELSE /\ procs[p].result.value # <<>>
              /\ ~DistLess(DistanceOf(8, 10), procs[p].result.value[1].distance)

\* a list was discarded whose best distance is above 0.8 and below 1
C12_Witness ==
  \E p \in Procs :
    /\ Ranked(p)
    /\ Len(procs[p].index.entries) = 3
    /\ procs[p].result.value = <<>>
    /\ \A i \in 1..3 : DistLess(DistanceOf(8, 10), QueryDistance(p, i))
    /\ \E i \in 1..3 : DistLess(QueryDistance(p, i), DistanceOf(1, 1))

(***************************************************************************)
(* Properties of chunkText (SpecChunk)                                     *)
(***************************************************************************)
\* C13: every chunk chunkText has pushed, and so every chunk it returns, is
\* trimmed, non-empty and at most 512 characters long.
C13_ChunksBounded ==
  \A k \in 1..Len(chunker.chunks) :
    /\ trim(chunker.chunks[k]) # <<>>
    /\ trim(chunker.chunks[k]) = chunker.chunks[k]
    /\ Len(chunker.chunks[k]) >= 1
    /\ Len(chunker.chunks[k]) <= 512

\* chunkText has returned several chunks, one of them 512 characters long
C13_Witness ==
  /\ chunker.pc = "returned"
  /\ Len(chunker.text) > 512
  /\ Len(chunker.chunks) >= 2
  /\ \E k \in 1..Len(chunker.chunks) : Len(chunker.chunks[k]) = 512

\* the windows cut so far follow one another with the 50 character overlap
WindowsChained ==
  LET w == chunker.windows
  IN /\ Len(w) >= 1 => w[1][1] = 0
     /\ \A k \in 2..Len(w) : w[k][1] = MaxOf(0, w[k - 1][2] - 50)

\* the chunks are the windows' texts, trimmed, without the empty ones
ChunksOfWindows ==
  LET w == chunker.windows
      texts == [k \in 1..Len(w) |-> trim(Slice(chunker.text, w[k][1], w[k][2]))]
  IN chunker.chunks = SelectSeq(texts, LAMBDA t : t # <<>>)

\* C14: chunkText is lossless.  The windows it cuts start at 0 and each later
\* one at the previous end minus 50, floored at 0; they cover every position
\* of the body, so no window is cut a second time (the loop would cut it for
\* ever and never reach the positions behind it), and when chunkText returns
\* the last window ends at the end of the body, every position lies in a
\* window, and the chunks are the trimmed texts of the windows.
C14_WindowsCoverBody ==
  /\ WindowsChained
  /\ ChunksOfWindows
  /\ \A k, l \in 1..Len(chunker.windows) :
       k # l => chunker.windows[k][1] # chunker.windows[l][1]
  /\ (chunker.pc = "returned" /\ chunker.text # <<>>)
       => /\ chunker.windows[Len(chunker.windows)][2] = Len(chunker.text)
          /\ \A pos \in 0..(Len(chunker.text) - 1) :
               \E k \in 1..Len(chunker.windows) :
                 chunker.windows[k][1] <= pos /\ pos < chunker.windows[k][2]

(***************************************************************************)
(* Properties of the error paths of POST (SpecPost)                        *)
(***************************************************************************)
\* the response of the outer catch for a rate-limit error
IsQuotaResponse(r) == r.status = 500 /\ r.error = "OpenAI quota exceeded."

\* C15: with OPENAI_BACKUP_API_KEY set, a quota (429) failure of a call made
\* with the primary key is retried with the backup key, for the embedding
\* calls as for the chat call: a request ends with the quota error only when
\* the call that failed last was made with the backup key or a later provider.
C15_BackupKeyRetriesBoth ==
  [][\A p \in Procs :
       (/\ env.OPENAI_BACKUP_API_KEY
        /\ procs[p].op = "POST"
        /\ procs[p].pc \in {"gi_embed", "ret_embed", "chat"}
        /\ procs'[p].pc = "done"
        /\ IsQuotaResponse(procs'[p].result))
         => (procs[p].pc = "chat" /\ procs[p].cfgIdx >= 2)]_vars

BlankQuestion(payload) ==
  /\ payload.json
  /\ \/ payload.question = NoText
     \/ \A k \in 1..Len(payload.question) : payload.question[k] \in WS

\* no retrieval, embedding or generation work was done for the call
NoWorkDone(pr) ==
  /\ pr.embedCalls = 0
  /\ pr.chatCalls = <<>>
  /\ pr.giHit = "none"
  /\ pr.index = Null
  /\ pr.retrieved = Null

\* C17 as stated: every request with a missing, empty or whitespace-only
\* question is answered with 400 'Question is required.' and causes no
\* retrieval, embedding or generation call.
C17_BlankQuestionIs400 ==
  \A p \in Procs :
    (procs[p].op = "POST" /\ procs[p].pc = "done" /\ BlankQuestion(procs[p].payload))
      => /\ procs[p].result = [status |-> 400, error |-> "Question is required."]
         /\ NoWorkDone(procs[p])

\* C17 as amended: such a request is answered with 400 'Question is required.'
\* when OPENAI_BASE_URL or OPENAI_API_KEY is set, and with the 500 missing key
\* response otherwise, because the credential check comes first; in both
\* cases no retrieval, embedding or generation call is made.
C17_BlankQuestionRejected ==
  \A p \in Procs :
    (procs[p].op = "POST" /\ procs[p].pc = "done" /\ BlankQuestion(procs[p].payload))
      => /\ procs[p].result.status
              = (IF env.OPENAI_BASE_URL \/ env.OPENAI_API_KEY THEN 400 ELSE 500)
         /\ procs[p].result.error
              = (IF env.OPENAI_BASE_URL \/ env.OPENAI_API_KEY THEN "Question is required."
                 ELSE "Missing OPENAI_API_KEY. Or use Ollama: set OPENAI_BASE_URL")
         /\ DOMAIN procs[p].result = {"status", "error"}
         /\ NoWorkDone(procs[p])

\* a whitespace-only question was rejected with 400 where retrieval would have
\* failed on the missing data directory
C17_Witness ==
  \E p \in Procs :
    /\ procs[p].op = "POST"
    /\ procs[p].pc = "done"
    /\ procs[p].payload = [json |-> TRUE, question |-> <<" ", "\n">>]
    /\ procs[p].result = [status |-> 400, error |-> "Question is required."]
    /\ NoWorkDone(procs[p])
    /\ ~fs.dir

\* a request with a question passed the checks of POST and ended before
\* retrieve returned: retrieve raised an error
RetrievalFailed(pr) ==
  /\ pr.op = "POST"
  /\ pr.pc = "done"
  /\ env.OPENAI_BASE_URL \/ env.OPENAI_API_KEY
  /\ pr.payload.json
  /\ ~BlankQuestion(pr.payload)
  /\ pr.retrieved = Null

\* C18: when retrieve raises an error (from loadPolicyDocs, the index build or
\* an embedding call), the request ends with a 500 response of error and
\* detail: no generation provider is called, there is no answer field, and
\* the response is not the canned 'no information' one.
C18_RetrievalErrorIs500 ==
  \A p \in Procs :
    RetrievalFailed(procs[p])
      => /\ procs[p].result.status = 500
         /\ DOMAIN procs[p].result = {"status", "error", "detail"}
         /\ procs[p].result.error \in {"OpenAI quota exceeded.", "Connection failed."}
         /\ procs[p].chatCalls = <<>>
         /\ procs[p].result # CannedResponse

\* the index was built, then the embedding of the question failed
C18_Witness ==
  \E p \in Procs :
    /\ RetrievalFailed(procs[p])
    /\ procs[p].embedCalls = 2
    /\ procs[p].index # Null
    /\ procs[p].index = cachedIndex
    /\ procs[p].result.status = 500

\* C19: a request ends with the 'quota exceeded' category only when no
\* generation provider remained to try: every configured provider was called
\* and every one of them failed with a rate limit.
C19_QuotaOnlyWhenExhausted ==
  \A p \in Procs :
    (procs[p].op = "POST" /\ procs[p].pc = "done" /\ IsQuotaResponse(procs[p].result))
      => /\ Len(procs[p].chatCalls) = ProviderCount
         /\ Len(procs[p].chatReplies) = ProviderCount
         /\ \A k \in 1..ProviderCount : RateLimited(procs[p].chatReplies[k])

(***************************************************************************)
(* Properties of the success response (SpecPost)                           *)
(***************************************************************************)
\* the text has no <sources>...</sources> pair, or only whitespace in the first
NoSources(text) ==
  LET opens == {o \in 0..Len(text) : MatchesAt(text, <<"<","s","o","u","r","c","e","s",">">>, o)}
      closes == {c \in 0..Len(text) :
                   /\ MatchesAt(text, <<"<","/","s","o","u","r","c","e","s",">">>, c)
                   /\ \E o \in opens : o + 9 <= c}
  IN \/ opens = {}
     \/ closes = {}
     \/ \A i \in (SetMin(opens) + 10)..SetMin({c \in closes : SetMin(opens) + 9 <= c}) :
          text[i] \in WS

\* the "source (section)" entries of the chunks, each at its first occurrence
\* only, joined by "; "
FirstSeenSources(chunks) ==
  LET e == [i \in 1..Len(chunks) |->
              chunks[i].metadata.source \o <<" ", "(">> \o chunks[i].metadata.section \o <<")">>]
      first == {i \in 1..Len(chunks) : \A j \in 1..(i - 1) : e[j] # e[i]}
      nth(k) == CHOOSE i \in first : Cardinality({j \in first : j < i}) = k - 1
  IN Join([k \in 1..Cardinality(first) |-> e[nth(k)]], <<";", " ">>)

\* C20: when the text of the provider that answered has no <sources> tag, or
\* an empty one, the sources of the response are the "source (section)"
\* entries of the retrieved chunks without repetitions, in first-seen order,
\* joined by "; ".
C20_SourcesFromChunks ==
  \A p \in Procs :
    LET pr == procs[p]
    IN (/\ pr.op = "POST"
        /\ pr.pc = "done"
        /\ pr.chatReplies # <<>>
        /\ pr.chatReplies[Len(pr.chatReplies)].ok
        /\ NoSources(pr.chatReplies[Len(pr.chatReplies)].value))
         => /\ pr.result.status = 200
            /\ pr.result.sources = FirstSeenSources(pr.retrieved.chunks)

\* three chunks were retrieved, the last two from the same section of the
\* same file, and the provider's text had no sources
C20_Witness ==
  \E p \in Procs :
    /\ procs[p].op = "POST"
    /\ procs[p].pc = "done"
    /\ procs[p].chatReplies # <<>>
    /\ procs[p].chatReplies[Len(procs[p].chatReplies)] = Returned(Reply_plain)
    /\ Len(procs[p].retrieved.chunks) = 3
    /\ procs[p].retrieved.chunks[2].metadata = procs[p].retrieved.chunks[3].metadata
    /\ procs[p].retrieved.chunks[1].metadata # procs[p].retrieved.chunks[2].metadata
    /\ procs[p].result.sources
         = Name_hr \o <<" ","(","L","e","a","v","e",")",";"," ">>
           \o Name_it \o <<" ","(","G","e","n","e","r","a","l",")">>

\* the text has no opening <confidence> tag
NoConfidenceTag(text) ==
  \A o \in 0..Len(text) :
    ~MatchesAt(text, <<"<","c","o","n","f","i","d","e","n","c","e",">">>, o)

\* the label of a distance: High below 0.35, Medium below 0.55, else Low
LabelOf(distance) ==
  IF DistLess(distance, DistanceOf(35, 100)) THEN <<"H","i","g","h">>
  ELSE IF DistLess(distance, DistanceOf(55, 100)) THEN <<"M","e","d","i","u","m">>
  ELSE <<"L","o","w">>

\* the request ended with the answer of a provider: that provider's text
AnsweredText(pr) == pr.chatReplies[Len(pr.chatReplies)].value
Answered(pr) ==
  /\ pr.op = "POST"
  /\ pr.pc = "done"
  /\ pr.chatReplies # <<>>
  /\ pr.chatReplies[Len(pr.chatReplies)].ok

\* C21: when the provider's text has no <confidence> tag, the confidence of
\* the response is the label of the distance of the first retrieved chunk,
\* and no retrieved chunk is nearer than the first.
C21_ConfidenceFromBestDistance ==
  \A p \in Procs :
    (Answered(procs[p]) /\ NoConfidenceTag(AnsweredText(procs[p])))
      => LET chunks == procs[p].retrieved.chunks
         IN /\ procs[p].result.status = 200
            /\ procs[p].result.confidence = LabelOf(chunks[1].distance)
            /\ \A k \in 1..Len(chunks) : ~DistLess(chunks[k].distance, chunks[1].distance)

\* three chunks at different distances were retrieved: the best one gives
\* High, the last one would give Low
C21_Witness ==
  \E p \in Procs :
    /\ Answered(procs[p])
    /\ NoConfidenceTag(AnsweredText(procs[p]))
    /\ Len(procs[p].retrieved.chunks) = 3
    /\ procs[p].result.confidence = <<"H","i","g","h">>
    /\ LabelOf(procs[p].retrieved.chunks[Len(procs[p].retrieved.chunks)].distance) = <<"L","o","w">>

\* the text has no opening <answer> tag
NoAnswerTag(text) ==
  \A o \in 0..Len(text) : ~MatchesAt(text, <<"<","a","n","s","w","e","r",">">>, o)

\* t is s without its leading and trailing whitespace
IsTrimOf(t, s) ==
  \E a \in 1..(Len(s) + 1) : \E b \in 0..Len(s) :
    /\ t = SubSeq(s, a, b)
    /\ \A i \in 1..Len(s) : (i < a \/ i > b) => s[i] \in WS
    /\ t # <<>> => (t[1] \notin WS /\ t[Len(t)] \notin WS)

\* C22 as stated: without an <answer> tag the answer of the response is the
\* provider's text, character for character.
C22_AnswerVerbatim ==
  \A p \in Procs :
    (Answered(procs[p]) /\ NoAnswerTag(AnsweredText(procs[p])))
      => procs[p].result.answer = AnsweredText(procs[p])

\* C22 as amended: without an <answer> tag the answer of the response is the
\* provider's whole text with its leading and trailing whitespace removed,
\* whether or not the text has <sources> or <confidence> tags.
C22_AnswerIsTrimmedText ==
  \A p \in Procs :
    (Answered(procs[p]) /\ NoAnswerTag(AnsweredText(procs[p])))
      => /\ procs[p].result.status = 200
         /\ IsTrimOf(procs[p].result.answer, AnsweredText(procs[p]))

\* a text without <answer> but with a <confidence> tag and whitespace at both
\* ends was answered with
C22_Witness ==
  \E p \in Procs :
    /\ Answered(procs[p])
    /\ AnsweredText(procs[p]) = Reply_no_answer
    /\ procs[p].result.answer # Reply_no_answer
    /\ procs[p].result.answer = SubSeq(Reply_no_answer, 2, Len(Reply_no_answer) - 1)
    /\ procs[p].result.confidence = <<"L","o","w">>

\* C23: once a call of a generation provider has succeeded, the request ends
\* with a success response of answer, sources, confidence and context,
\* whatever the text is: empty, without tags, or with tags left open.
C23_SuccessWhateverTheText ==
  \A p \in Procs :
    \A k \in 1..Len(procs[p].chatReplies) :
      (procs[p].op = "POST" /\ procs[p].chatReplies[k].ok)
        => /\ procs[p].pc = "done"
           /\ procs[p].result.status = 200
           /\ DOMAIN procs[p].result = {"status", "answer", "sources", "confidence", "context"}
           /\ procs[p].result.context = procs[p].retrieved.chunks

\* the second provider answered with the empty text, the response is a
\* success with an empty answer
C23_Witness ==
  \E p \in Procs :
    /\ Answered(procs[p])
    /\ Len(procs[p].chatReplies) = 2
    /\ AnsweredText(procs[p]) = <<>>
    /\ procs[p].result.status = 200
    /\ procs[p].result.answer = <<>>

(***************************************************************************)
(* Claims about estimateConfidence, checked under SpecConfidence           *)
(***************************************************************************)
\* the distance of a call as a count of two-hundredths
TwoHundredths(distance) == 200 - distance.num

\* High, Medium, Low from best to worst
LabelRank(label) ==
  IF label = <<"H","i","g","h">> THEN 1
  ELSE IF label = <<"M","e","d","i","u","m">> THEN 2
  ELSE IF label = <<"L","o","w">> THEN 3
  ELSE 0

\* C24: estimateConfidence(d) is High exactly when d < 0.35, Medium exactly
\* when 0.35 <= d < 0.55 and Low exactly when d >= 0.55, so 0.35 is Medium
\* and 0.55 is Low; and no larger distance has a better label.
C24_ConfidenceBands ==
  call.fn = "estimateConfidence" =>
    LET n == TwoHundredths(call.distance)
    IN /\ call.label = <<"H","i","g","h">> <=> n * 100 < 35 * 200
       /\ call.label = <<"M","e","d","i","u","m">> <=> (35 * 200 <= n * 100 /\ n * 100 < 55 * 200)
       /\ call.label = <<"L","o","w">> <=> 55 * 200 <= n * 100
       /\ LabelRank(call.label) \in 1..3
       /\ \A larger \in Distances :
            TwoHundredths(larger) >= n
              => LabelRank(estimateConfidence(larger)) >= LabelRank(call.label)

\* the distance 0.35 itself has been labelled, and is Medium
C24_Witness ==
  /\ call.fn = "estimateConfidence"
  /\ TwoHundredths(call.distance) = 70
  /\ call.label = <<"M","e","d","i","u","m">>

\* the distance 0.55 itself has been labelled, and is Low
C24_WitnessLow ==
  /\ call.fn = "estimateConfidence"
  /\ TwoHundredths(call.distance) = 110
  /\ call.label = <<"L","o","w">>

(***************************************************************************)
(* Claims about the ask route, continued (SpecPost)                        *)
(***************************************************************************)
\* neither OPENAI_API_KEY nor OPENAI_BASE_URL is set
MissingCredential == ~env.OPENAI_API_KEY /\ ~env.OPENAI_BASE_URL

\* C25: a request made with neither OPENAI_API_KEY nor OPENAI_BASE_URL set
\* ends at once with the 500 response that says which variable to set, and
\* makes no retrieval, embedding or generation call, whatever its body and
\* whatever other providers are configured; nothing is cached by it.
C25_MissingCredentialIsFatal ==
  MissingCredential =>
    /\ cachedIndex = Null
    /\ cachedDocsHash = NoText
    /\ \A p \in Procs :
         procs[p].op = "POST" =>
           /\ procs[p].pc = "done"
           /\ procs[p].result.status = 500
           /\ procs[p].result.error
                = "Missing OPENAI_API_KEY. Or use Ollama: set OPENAI_BASE_URL"
           /\ DOMAIN procs[p].result = {"status", "error"}
           /\ NoWorkDone(procs[p])

\* a request with a question the policies answer was refused for the missing
\* credential although a backup key and a Groq key are set
C25_Witness ==
  \E p \in Procs :
    /\ MissingCredential
    /\ env.OPENAI_BACKUP_API_KEY
    /\ env.GROQ_API_KEY
    /\ HasDocs(fs)
    /\ procs[p].op = "POST"
    /\ procs[p].pc = "done"
    /\ procs[p].payload = [json |-> TRUE, question |-> Str_llkkk]
    /\ procs[p].result.status = 500
    /\ NoWorkDone(procs[p])

(***************************************************************************)
(* Claims about the index cache, continued (SpecIndex)                     *)
(***************************************************************************)
\* the index of a state of the policy files together with its fingerprint
CachePairs ==
  {<<ExpectedIndex(TxtFiles(dir)), hashDocs(TxtFiles(dir))>> :
     dir \in {d \in CorpusStates : HasDocs(d)}}

\* the embedding calls that n texts take
Batches(n) == (n + batchSize - 1) \div batchSize

\* pr is a getIndex call that rebuilt the index and has returned it
Rebuilt(pr) == pr.op = "getIndex" /\ pr.pc = "done" /\ pr.giHit = "miss" /\ pr.index # Null

\* C26: getIndex has no mutual exclusion.  A caller that finds the fingerprint
\* stale while another caller is rebuilding for that same fingerprint starts
\* a rebuild of its own, with its own embedding calls, and leaves the other
\* call and the cache alone.  Once two rebuilding callers have both returned,
\* each has made the embedding calls of its own chunks and holds an array of
\* its own, and the cache holds the array of one of them, complete and with
\* the fingerprint of the documents it was built from.
C26_ConcurrentRebuilds ==
  /\ [](\A p, q \in Procs :
          (p # q /\ Rebuilt(procs[p]) /\ Rebuilt(procs[q]))
            => /\ procs[p].embedCalls = Batches(Len(procs[p].index.entries))
               /\ procs[q].embedCalls = Batches(Len(procs[q].index.entries))
               /\ procs[p].index.id # procs[q].index.id
               /\ cachedIndex \in {procs[p].index, procs[q].index}
               /\ <<cachedIndex.entries, cachedDocsHash>> \in CachePairs)
  /\ [][\A p, q \in Procs :
          (/\ p # q
           /\ Starts(q)
           /\ procs'[q].op = "getIndex"
           /\ procs[p].pc \in {"gi_embed", "gi_resume"}
           /\ HasDocs(fs)
           /\ procs[p].docsHash = hashDocs(TxtFiles(fs))
           /\ ~(cachedIndex # Null /\ cachedDocsHash = hashDocs(TxtFiles(fs))))
            => /\ procs'[q].giHit = "miss"
               /\ procs'[q].index = Null
               /\ procs'[q].chunks = buildChunks(TxtFiles(fs))
               /\ procs'[q].pc = (IF procs'[q].chunks = <<>> THEN "gi_resume" ELSE "gi_embed")
               /\ procs'[q].embedCalls = (IF procs'[q].chunks = <<>> THEN 0 ELSE 1)
               /\ procs'[p] = procs[p]
               /\ CacheUnchanged]_vars

\* two callers rebuilt for the same fingerprint at the same time: one has
\* returned and its array is the cached one, the other started before that
\* and has its embeddings but has not yet replaced the cache
C26_WitnessOverlap ==
  \E p, q \in Procs :
    /\ Rebuilt(procs[p])
    /\ procs[p].index = cachedIndex
    /\ procs[q].pc = "gi_resume"
    /\ procs[q].giHit = "miss"
    /\ procs[q].docsHash = cachedDocsHash
    /\ procs[q].embedCalls >= 1

\* both have returned after rebuilding for the same fingerprint, each with an
\* array of its own, and the cache holds the array of one of them; the two
\* arrays are the first two ever allocated, so no rebuild came between them
\* and the second caller started before the first replaced the cache
C26_Witness ==
  \E p, q \in Procs :
    /\ p # q
    /\ Rebuilt(procs[p])
    /\ Rebuilt(procs[q])
    /\ {procs[p].index.id, procs[q].index.id} = {0, 1}
    /\ procs[p].result.ok
    /\ procs[q].result.ok
    /\ procs[p].embedCalls >= 1
    /\ procs[q].embedCalls >= 1
    /\ procs[p].index.id # procs[q].index.id
    /\ procs[p].index.entries = procs[q].index.entries
    /\ cachedIndex = procs[q].index
    /\ cachedDocsHash = hashDocs(TxtFiles(fs))

\* the references to index arrays that exist: the cache and the callers' locals
Refs == ({cachedIndex} \cup {procs[p].index : p \in Procs}) \ {Null}

\* C27: an index array that getIndex has handed out is never changed.  Two
\* references to the same array show the same entries, in every state and
\* from each state to the next; the array a call holds stays the one it was
\* given until the call ends; a rebuild puts a newly allocated array into the
\* cache; and retrieve scores the entries of the array it was given, which is
\* complete, and leaves that array as it was.
C27_IndexNeverMutated ==
  /\ [](\A a, b \in Refs : a.id = b.id => a.entries = b.entries)
  /\ [][/\ \A a \in Refs : \A b \in Refs' : a.id = b.id => a.entries = b.entries
        /\ \A p \in Procs :
             /\ (procs[p].index # Null /\ procs'[p].index # Null)
                  => procs'[p].index = procs[p].index
             /\ Resumes(p) => cachedIndex'.id \notin LiveIds
             /\ (procs[p].pc = "ret_embed" /\ procs'[p].pc = "done" /\ procs'[p].result.ok)
                  => /\ Complete(procs[p].index)
                     /\ procs'[p].result.value
                          = rankChunks(procs[p].index.entries, procs'[p].queryEmbedding,
                                       procs[p].topK)]_vars

\* a retrieve call was served the index from the cache, a rebuild replaced the
\* cache while the call waited for its query embedding, and the call returned
\* chunks scored against the array it held, which the new index does not yield
C27_Witness ==
  \E p \in Procs :
    /\ procs[p].op = "retrieve"
    /\ procs[p].pc = "done"
    /\ procs[p].result.ok
    /\ procs[p].giHit = "hit"
    /\ procs[p].index # Null
    /\ cachedIndex # Null
    /\ procs[p].index.id # cachedIndex.id
    /\ procs[p].index.entries # cachedIndex.entries
    /\ Len(procs[p].result.value) > 0
    /\ procs[p].result.value
         = rankChunks(procs[p].index.entries, procs[p].queryEmbedding, procs[p].topK)
    /\ procs[p].result.value
         # rankChunks(cachedIndex.entries, procs[p].queryEmbedding, procs[p].topK)

\* what the fingerprint is computed from: each document's name and length
NamesAndLengths(docs) == [i \in 1..Len(docs) |-> <<docs[i].filename, Len(docs[i].text)>>]

\* C28: only the names and the lengths of the documents invalidate the cache.
\* When the cache holds the index of documents with the names and lengths the
\* policy files have now, getIndex returns the cached array unchanged and
\* calls no embedding provider, whether or not the texts are still the same.
C28_SameLengthEditKeepsCache ==
  [][\A p \in Procs :
       (/\ Starts(p)
        /\ procs'[p].op = "getIndex"
        /\ cachedIndex # Null
        /\ HasDocs(fs)
        /\ \E dir \in CorpusStates :
             /\ HasDocs(dir)
             /\ <<cachedIndex.entries, cachedDocsHash>>
                  = <<ExpectedIndex(TxtFiles(dir)), hashDocs(TxtFiles(dir))>>
             /\ NamesAndLengths(TxtFiles(dir)) = NamesAndLengths(TxtFiles(fs)))
         => /\ procs'[p].pc = "done"
            /\ procs'[p].result = Returned(cachedIndex)
            /\ procs'[p].giHit = "hit"
            /\ procs'[p].embedCalls = 0
            /\ CacheUnchanged]_vars

\* after a text was edited without a change of length, getIndex returned the
\* cached index, which is not the index of the policy files as they are
C28_Witness ==
  \E p \in Procs :
    /\ procs[p].op = "getIndex"
    /\ procs[p].pc = "done"
    /\ procs[p].giHit = "hit"
    /\ procs[p].embedCalls = 0
    /\ procs[p].result = Returned(cachedIndex)
    /\ HasDocs(fs)
    /\ cachedDocsHash = hashDocs(TxtFiles(fs))
    /\ cachedIndex.entries # ExpectedIndex(TxtFiles(fs))
    /\ \E k \in 1..Len(TxtFiles(fs)) :
         /\ TxtFiles(fs)[k].text = Text_hr_edited
         /\ Len(Text_hr_edited) = Len(Text_hr)
         /\ cachedIndex.entries[1].content = splitIntoSections(Text_hr)[1].body
         /\ cachedIndex.entries[1].content # splitIntoSections(Text_hr_edited)[1].body

(***************************************************************************)
(* Claims about splitIntoSections, checked under SpecSections              *)
(***************************************************************************)
\* the lines of a text, each trimmed
TrimmedLines(text) == LET ls == splitLines(text) IN [i \in 1..Len(ls) |-> trim(ls[i])]

\* positions of the header lines and of the other non-blank lines
HeaderAt(ls) == {i \in 1..Len(ls) : ls[i] # <<>> /\ isHeader(ls[i])}
BodyAt(ls) == {i \in 1..Len(ls) : ls[i] # <<>> /\ ~isHeader(ls[i])}

\* C29 as stated: a document in which no line is detected as a header yields
\* exactly one section, titled "General".
C29_NoHeaderOneSection ==
  (call.fn = "splitIntoSections" /\ HeaderAt(TrimmedLines(call.text)) = {})
    => /\ Len(call.sections) = 1
       /\ call.sections[1].title = Str_General

\* C29 as amended: a document in which no line is detected as a header yields
\* exactly one section, titled "General", when it has a non-blank line, and
\* no section when every line is blank.
C29_NoHeaderOneSectionUnlessBlank ==
  (call.fn = "splitIntoSections" /\ HeaderAt(TrimmedLines(call.text)) = {})
    => IF BodyAt(TrimmedLines(call.text)) # {}
       THEN /\ Len(call.sections) = 1
            /\ call.sections[1].title = Str_General
       ELSE call.sections = <<>>

\* three lines, none a header, the last one upper-case but too short for one:
\* one section titled General that holds them all
C29_Witness ==
  /\ call.fn = "splitIntoSections"
  /\ call.text = <<"a","b","\n"," ","c","d"," ","\n","A","B">>
  /\ call.sections = <<[title |-> Str_General,
                        body |-> <<"a","b","\n"," ","c","d"," ","\n","A","B">>]>>

\* the number of header lines above line i
HeadersBefore(ls, i) == Cardinality({h \in HeaderAt(ls) : h < i})

\* the runs of lines between headers that hold a non-blank line, each named
\* by the number of headers above it
Groups(ls) == {HeadersBefore(ls, i) : i \in BodyAt(ls)}

\* the k-th smallest member of a set of numbers
Nth(S, k) == CHOOSE x \in S : Cardinality({y \in S : y < x}) = k - 1

\* the non-blank lines of run g in document order, and the title of the run:
\* that of the header above it, "General" for the run above every header
GroupLines(ls, g) ==
  LET at == {i \in BodyAt(ls) : HeadersBefore(ls, i) = g}
  IN [k \in 1..Cardinality(at) |-> ls[Nth(at, k)]]
GroupTitle(ls, g) == IF g = 0 THEN Str_General ELSE headerTitle(ls[Nth(HeaderAt(ls), g)])

\* the non-blank lines of a section body, each trimmed
ContentLines(body) == SelectSeq(TrimmedLines(body), LAMBDA l : l # <<>>)

\* the sections are the runs of Groups in order, each with its lines in order
SectionsAreGroups(sections, ls) ==
  /\ Len(sections) = Cardinality(Groups(ls))
  /\ \A k \in 1..Len(sections) :
       /\ ContentLines(sections[k].body) = GroupLines(ls, Nth(Groups(ls), k))
       /\ sections[k].title = GroupTitle(ls, Nth(Groups(ls), k))

\* C30 as stated: every non-blank line of the document belongs to exactly one
\* section, in document order.  A header line is taken to belong to the
\* section it gives the title to, so every header line has its section
\* among those returned.
C30_PartitionOfNonBlankLines ==
  call.fn = "splitIntoSections" =>
    LET ls == TrimmedLines(call.text)
    IN /\ SectionsAreGroups(call.sections, ls)
       /\ \A h \in HeaderAt(ls) : (HeadersBefore(ls, h) + 1) \in Groups(ls)

\* C30 as amended: the sections partition the non-blank lines that are not
\* headers.  Each run of such lines between two headers is the body of one
\* section, the runs and the lines within them are in document order, and
\* the title is that of the header above the run; a header with no non-blank
\* line below it before the next header is in no section.
C30_PartitionOfBodyLines ==
  call.fn = "splitIntoSections" =>
    SectionsAreGroups(call.sections, TrimmedLines(call.text))

\* a line, a header and a padded line: two sections in document order, the
\* header line in no body
C30_Witness ==
  /\ call.fn = "splitIntoSections"
  /\ call.text = <<"a","b","\r","\n","#","#"," ","T","\r","\n"," ","c","d"," ">>
  /\ call.sections = <<[title |-> Str_General, body |-> <<"a","b">>],
                       [title |-> <<"T">>, body |-> <<"c","d">>]>>

(***************************************************************************)
(* Claims about embedTexts inside getIndex, checked under SpecBatch        *)
(***************************************************************************)
\* C31: embedTexts sends the texts in consecutive batches of at most 64, one
\* provider call per batch, and collects one vector per text in the order of
\* the texts: while the call waits for batch b it holds the vectors of the
\* first 64 * (b - 1) texts, each reply adds the vectors of at most 64 further
\* texts behind them, and at the end there are as many vectors as texts,
\* after one call per batch.  The chunks of a rebuild are in the order of
\* the files and, within a file, of its sections, and getIndex makes one
\* entry per chunk, entry k of chunk k and its vector.
C31_BatchedInOrder ==
  /\ [](\A p \in Procs :
          procs[p].pc \in {"gi_embed", "gi_resume"} =>
            LET pr == procs[p]
            IN /\ Len(pr.embeddings) = MinOf(pr.i, Len(pr.chunks))
               /\ \A k \in 1..Len(pr.embeddings) :
                    pr.embeddings[k] = embeddingOf(pr.chunks[k].content)
               /\ pr.pc = "gi_embed"
                    => /\ pr.i = 64 * (pr.embedCalls - 1)
                       /\ pr.i < Len(pr.chunks)
               /\ pr.pc = "gi_resume"
                    => /\ Len(pr.embeddings) = Len(pr.chunks)
                       /\ pr.embedCalls = (Len(pr.chunks) + 63) \div 64)
  /\ [][\A p \in Procs :
          /\ (Starts(p) /\ procs'[p].pc \in {"gi_embed", "gi_resume"})
               => LET names == [d \in 1..Len(TxtFiles(fs)) |-> TxtFiles(fs)[d].filename]
                      at(k) == IndexOf(names, procs'[p].chunks[k].metadata.source)
                  IN \A k \in 1..(Len(procs'[p].chunks) - 1) :
                       \/ at(k) < at(k + 1)
                       \/ /\ at(k) = at(k + 1)
                          /\ procs'[p].chunks[k].metadata.section
                               # procs'[p].chunks[k + 1].metadata.section
          /\ (/\ procs[p].pc = "gi_embed"
              /\ procs'[p].pc \in {"gi_embed", "gi_resume"}
              /\ procs'[p] # procs[p])
               => /\ procs'[p].chunks = procs[p].chunks
                  /\ (Len(procs'[p].embeddings) - Len(procs[p].embeddings)) \in 1..64
                  /\ SubSeq(procs'[p].embeddings, 1, Len(procs[p].embeddings))
                       = procs[p].embeddings
                  /\ procs'[p].embedCalls
                       = procs[p].embedCalls + (IF procs'[p].pc = "gi_embed" THEN 1 ELSE 0)
          /\ Resumes(p)
               => /\ Len(cachedIndex'.entries) = Len(procs[p].chunks)
                  /\ \A k \in 1..Len(procs[p].chunks) :
                       cachedIndex'.entries[k]
                         = [content |-> procs[p].chunks[k].content,
                            metadata |-> procs[p].chunks[k].metadata,
                            embedding |-> embeddingOf(procs[p].chunks[k].content)]]_vars

\* the index of 129 chunks was built with three embedding calls; entry 65,
\* the first of the second batch, is section 5 of the seventh file, and entry
\* 129, alone in the third batch, is section 9 of the thirteenth
C31_Witness ==
  \E p \in Procs :
    /\ Rebuilt(procs[p])
    /\ procs[p].embedCalls = 3
    /\ Len(procs[p].index.entries) = 129
    /\ procs[p].index.entries[65].metadata.source = <<"p","7",".","t","x","t">>
    /\ procs[p].index.entries[65].metadata.section = <<"E">>
    /\ procs[p].index.entries[65].embedding = <<7, 5>>
    /\ procs[p].index.entries[129].metadata.source = <<"p","1","3",".","t","x","t">>
    /\ procs[p].index.entries[129].embedding = <<13, 9>>

(***************************************************************************)
(* Claims about chunkText and findSentenceBoundary, continued (SpecChunk)  *)
(***************************************************************************)
\* C32: chunkText terminates on every text: each iteration of its loop either
\* ends the loop or moves the start of the next window strictly forward.
C32_IterationAdvances ==
  [][chunker.pc = "loop"
       => \/ chunker'.pc = "returned"
          \/ chunker'.start > chunker.start]_vars

\* an iteration has cut a window that ends at a space between offsets 11 and
\* 50 of the window, and the next window starts where this one started
C32_StuckAtStart ==
  /\ chunker.pc = "loop"
  /\ Len(chunker.windows) >= 2
  /\ chunker.windows[1] = chunker.windows[2]
  /\ chunker.windows[1][2] - chunker.windows[1][1] \in 11..50
  /\ chunker.text[chunker.windows[1][2] + 1] = " "
  /\ chunker.start = chunker.windows[1][1]

\* the offsets, counted from the start of the window of 512 characters at
\* start, just behind a sentence end (one of . ! ? and a whitespace character
\* after it, both inside the window), and the offsets of the spaces
SentenceEnds(text, start) ==
  {o \in 2..512 : text[start + o - 1] \in {".", "!", "?"} /\ text[start + o] \in WS}
SpacesIn(text, start) == {o \in 0..511 : text[start + o + 1] = " "}

\* C33: when the window of 512 characters does not reach the end of the text,
\* the window is cut just behind its last sentence end if that is past 60% of
\* the window; otherwise at its last space if that is beyond offset 10;
\* otherwise at 512.  The cut lies within the window.
C33_BoundaryChoice ==
  [][(/\ chunker.pc = "loop"
      /\ chunker.start + 512 < Len(chunker.text)
      /\ Len(chunker'.windows) = Len(chunker.windows) + 1)
       => LET start == chunker.start
              cut == chunker'.windows[Len(chunker'.windows)][2] - start
              ends == SentenceEnds(chunker.text, start)
              spaces == SpacesIn(chunker.text, start)
          IN /\ chunker'.windows[Len(chunker'.windows)][1] = start
             /\ cut \in 0..512
             /\ IF ends # {} /\ 5 * SetMax(ends) > 3 * 512 THEN cut = SetMax(ends)
                ELSE IF spaces # {} /\ SetMax(spaces) > 10 THEN cut = SetMax(spaces)
                ELSE cut = 512]_vars

\* a window was cut behind a sentence end at offset 308, the first offset
\* past 60% of 512
C33_Witness ==
  /\ chunker.text = OneDot(600, 306)
  /\ Len(chunker.windows) >= 1
  /\ chunker.windows[1] = <<0, 308>>

\* a sentence end at offset 307 is not past 60%: the window was cut at the
\* last space, offset 306
C33_WitnessSpace ==
  /\ chunker.text = OneDot(600, 305)
  /\ Len(chunker.windows) >= 1
  /\ chunker.windows[1] = <<0, 306>>

\* the only space is at offset 10: the window was cut at 512
C33_WitnessHardCut ==
  /\ chunker.text = OneSpace(600, 10)
  /\ Len(chunker.windows) >= 1
  /\ chunker.windows[1] = <<0, 512>>

(***************************************************************************)
(* Claims about the index cache, third part (SpecIndex)                    *)
(***************************************************************************)
\* C34: in every state, whatever the interleaving of getIndex calls and
\* changes of the policy files, cachedIndex and cachedDocsHash are both null,
\* or cachedIndex is the whole index of one state of the policy files and
\* cachedDocsHash is the fingerprint of that same state.
C34_CachePairConsistent ==
  \/ cachedIndex = Null /\ cachedDocsHash = NoText
  \/ /\ cachedIndex # Null
     /\ <<cachedIndex.entries, cachedDocsHash>> \in CachePairs

\* two rebuilds from different states of the policy files have both
\* returned; the cache holds the index and the fingerprint of the one that
\* resumed last, which is not the state the policy files are in now
C34_Witness ==
  \E p, q \in Procs :
    /\ Rebuilt(procs[p])
    /\ Rebuilt(procs[q])
    /\ procs[p].index.entries # procs[q].index.entries
    /\ cachedIndex = procs[p].index
    /\ <<cachedIndex.entries, cachedDocsHash>> \in CachePairs
    /\ HasDocs(fs)
    /\ cachedDocsHash # hashDocs(TxtFiles(fs))
    /\ cachedIndex.entries # ExpectedIndex(TxtFiles(fs))

\* p's getIndex is between its start and its return
Rebuilding(pr) == pr.pc \in {"gi_embed", "gi_resume"}

\* C35: a getIndex call that succeeds returns an index with the fingerprint
\* of the policy files as the call read them at its start.  Served from the
\* cache, it returns an index with the fingerprint just read.  Rebuilding, it
\* keeps the fingerprint it read for the whole call, whatever the other calls
\* put into the cache meanwhile, and returns the index of its own chunks,
\* which has that fingerprint.
C35_ReturnsIndexOfOwnSnapshot ==
  [][\A p \in Procs :
       /\ (Starts(p) /\ procs'[p].giHit = "hit")
            => /\ procs'[p].index = cachedIndex
               /\ <<procs'[p].index.entries, hashDocs(TxtFiles(fs))>> \in CachePairs
       /\ (Starts(p) /\ Rebuilding(procs'[p]))
            => /\ procs'[p].docsHash = hashDocs(TxtFiles(fs))
               /\ procs'[p].seen = cachedDocsHash
       /\ (Rebuilding(procs[p]) /\ Rebuilding(procs'[p]))
            => /\ procs'[p].docsHash = procs[p].docsHash
               /\ procs'[p].chunks = procs[p].chunks
       /\ Resumes(p)
            => /\ procs'[p].index # Null
               /\ <<procs'[p].index.entries, procs[p].docsHash>> \in CachePairs
               /\ Len(procs'[p].index.entries) = Len(procs[p].chunks)
               /\ \A k \in 1..Len(procs[p].chunks) :
                    procs'[p].index.entries[k].content = procs[p].chunks[k].content
               /\ procs'[p].op = "getIndex"
                    => procs'[p].result = Returned(procs'[p].index)]_vars

\* p's rebuild began when the cache was empty and has its embeddings; while
\* it waited, q rebuilt from another state of the policy files and returned,
\* so the cache holds an index and a fingerprint that are not p's
C35_Witness ==
  \E p, q \in Procs :
    /\ procs[p].pc = "gi_resume"
    /\ procs[p].seen = NoText
    /\ Len(procs[p].chunks) > 0
    /\ Rebuilt(procs[q])
    /\ cachedIndex = procs[q].index
    /\ cachedDocsHash # procs[p].docsHash
    /\ procs[q].index.entries # zipEmbeddings(procs[p].chunks, procs[p].embeddings)

(***************************************************************************)
(* Claims about a failing rebuild, checked under SpecBatch                 *)
(***************************************************************************)
\* C36: when the embedding provider fails during a rebuild, in whichever
\* batch, getIndex ends with that error, hands out no index and leaves
\* cachedIndex and cachedDocsHash as they were.  Nothing else remembers the
\* failure: a later call is served the cached index when the policy files
\* have the cached fingerprint, and starts a rebuild with a first embedding
\* call when they have another.
C36_FailedRebuildKeepsCache ==
  [][\A p \in Procs :
       /\ (Rebuilding(procs[p]) /\ procs'[p].pc = "done" /\ ~procs'[p].result.ok)
            => /\ procs'[p].result.error \in ProviderErrors
               /\ procs'[p].index = Null
               /\ procs'[p].embedCalls = procs[p].embedCalls
               /\ CacheUnchanged
       /\ (procs[p].pc = "done" /\ ~procs[p].result.ok /\ procs'[p] # procs[p])
            => procs'[p] = IdleProc /\ CacheUnchanged
       /\ (Starts(p) /\ cachedIndex # Null /\ hashDocs(TxtFiles(fs)) = cachedDocsHash)
            => /\ procs'[p].result = Returned(cachedIndex)
               /\ procs'[p].embedCalls = 0
               /\ CacheUnchanged
       /\ (Starts(p) /\ hashDocs(TxtFiles(fs)) # cachedDocsHash)
            => /\ procs'[p].pc = "gi_embed"
               /\ procs'[p].embedCalls = 1
               /\ procs'[p].docsHash = hashDocs(TxtFiles(fs))
               /\ CacheUnchanged]_vars

\* a rebuild of 129 chunks failed in its third batch; the cache still holds
\* the index of 65 chunks built before, with its fingerprint
C36_Witness ==
  \E p \in Procs :
    /\ procs[p].op = "getIndex"
    /\ procs[p].pc = "done"
    /\ ~procs[p].result.ok
    /\ procs[p].embedCalls = 3
    /\ procs[p].index = Null
    /\ fs = BatchCorpus(129)
    /\ cachedIndex # Null
    /\ Len(cachedIndex.entries) = 65
    /\ cachedDocsHash = hashDocs(BatchCorpus(65).files)

(***************************************************************************)
(* Claims about the ranking in retrieve, continued (SpecRank)              *)
(***************************************************************************)
\* C37: for a query that is not blank, an index of n > 0 entries and topK of
\* at least 1, when the best distance is 0.8 or less retrieve returns
\* min(topK, n) chunks, and chunk k of them is the entry of the index that
\* k - 1 entries come before in the ascending ranking; the distances of the
\* chunks behind the first are not tested against 0.8.
C37_FirstTopKOfRanking ==
  \A p \in Procs :
    (/\ Ranked(p)
     /\ Len(procs[p].index.entries) > 0
     /\ procs[p].topK >= 1
     /\ \E i \in 1..Len(procs[p].index.entries) :
          ~DistLess(DistanceOf(8, 10), QueryDistance(p, i)))
      => LET res == procs[p].result.value
             entries == procs[p].index.entries
             n == Len(entries)
             rank(i) == Cardinality({j \in 1..n :
                          Before(QueryDistance(p, j), j, QueryDistance(p, i), i)})
         IN /\ Len(res) = MinOf(procs[p].topK, n)
            /\ \A k \in 1..Len(res) :
                 \E i \in 1..n :
                   /\ rank(i) = k - 1
                   /\ res[k] = [content |-> entries[i].content,
                                metadata |-> entries[i].metadata,
                                distance |-> QueryDistance(p, i)]

\* all three entries of the index were returned for topK = 5: the best is at
\* a distance of 0.8 or less, the last is at a distance above 0.8
C37_Witness ==
  \E p \in Procs :
    /\ Ranked(p)
    /\ procs[p].topK = 5
    /\ Len(procs[p].index.entries) = 3
    /\ Len(procs[p].result.value) = 3
    /\ ~DistLess(DistanceOf(8, 10), procs[p].result.value[1].distance)
    /\ DistLess(DistanceOf(8, 10), procs[p].result.value[3].distance)

\* one chunk of three was returned for topK = 1
C37_WitnessTopOne ==
  \E p \in Procs :
    /\ Ranked(p)
    /\ procs[p].topK = 1
    /\ Len(procs[p].index.entries) = 3
    /\ Len(procs[p].result.value) = 1

====
